---- MODULE Spec2Model ----
(***************************************************************************)
(* A model of the citeproc-rs Processor (crates/citeproc/src/db/mod.rs),   *)
(* of the locale queries (crates/citeproc-db/src/xml.rs) and of the        *)
(* embedding wrapper (bindings/ffi/src/lib.rs).                            *)
(*                                                                         *)
(* The processor is a salsa database: a set of stamped inputs, a table of  *)
(* memoised derived queries and a revision counter.  The database is one   *)
(* record, db, and every method of the processor is an operator from a     *)
(* database to the database it leaves behind; an action applies one method.*)
(***************************************************************************)
EXTENDS Integers, Sequences, FiniteSets, TLC

(***************************************************************************)
(* Bounds of the model.                                                    *)
(***************************************************************************)
MaxClusterId == 2
MaxCiteId == 3
MaxCalls == 4

(***************************************************************************)
(* Option<T>: None is the empty tuple, Some(v) the one-element tuple.      *)
(***************************************************************************)
None == <<>>
Some(v) == <<v>>
IsSome(o) == o # <<>>
Unwrap(o) == o[1]

Max(a, b) == IF a >= b THEN a ELSE b

RECURSIVE Flatten(_)
Flatten(seqs) ==
    IF seqs = <<>> THEN <<>> ELSE Head(seqs) \o Flatten(Tail(seqs))

Contains(seq, x) == \E i \in 1..Len(seq) : seq[i] = x

Reverse(seq) == [i \in 1..Len(seq) |-> seq[Len(seq) + 1 - i]]

RECURSIVE FilterSeq(_, _)
\* The elements of seq that are not x, in order.
FilterSeq(seq, x) ==
    IF seq = <<>> THEN <<>>
    ELSE IF Head(seq) = x THEN FilterSeq(Tail(seq), x)
    ELSE <<Head(seq)>> \o FilterSeq(Tail(seq), x)

(***************************************************************************)
(* Identifiers.  ClusterId and CiteId are u32; reference ids are atoms.    *)
(***************************************************************************)
ClusterIds == 1..MaxClusterId
CiteIds == 1..MaxCiteId
RefIds == {"r1", "r2"}
Langs == {"en-US", "fr-FR", "fr-CA"}
en_us == "en-US"

(***************************************************************************)
(* Locale.  A parsed locale is a record of optional fields; merge is       *)
(* field-wise, Some overrides and None preserves.                          *)
(***************************************************************************)
LocaleFields == {"terms", "options"}
LocaleDefault == [f \in LocaleFields |-> None]

LocaleMerge(base, other) ==
    [f \in LocaleFields |-> IF IsSome(other[f]) THEN other[f] ELSE base[f]]

\* A locale XML document: its text either parses to the locale it spells out
\* or does not parse.
LocaleXml(wellformed, body) == [wellformed |-> wellformed, body |-> body]
GarbageXml == LocaleXml(FALSE, LocaleDefault)

\* Locale::from_str: Ok(locale) or Err.
LocaleFromStr(xml) ==
    IF xml.wellformed THEN [ok |-> TRUE, locale |-> xml.body]
    ELSE [ok |-> FALSE, locale |-> LocaleDefault]

\* LocaleSource::Inline(lang?) and LocaleSource::File(lang).
Inline(lang) == [file |-> FALSE, lang |-> lang]
File(lang) == [file |-> TRUE, lang |-> lang]
NoLang == ""

\* Lang::iter(): the requested lang first, then its fallbacks, ending at the
\* root fallback en-US; inline sources before file sources.
LangFileChain(lang) ==
    IF lang = "fr-CA" THEN <<"fr-CA", "fr-FR", "en-US">>
    ELSE IF lang = "fr-FR" THEN <<"fr-FR", "en-US">>
    ELSE <<"en-US">>

LangIter(lang) ==
    <<Inline(lang), Inline(NoLang)>>
        \o [i \in 1..Len(LangFileChain(lang)) |-> File(LangFileChain(lang)[i])]

(***************************************************************************)
(* Style.  The text of a style either parses to the style it spells out or *)
(* yields a StyleError.                                                    *)
(***************************************************************************)
\* The name options of an element: every attribute is optional.
NameFields == {"and", "form", "et_al_min", "initialize"}
NameUnset == [f \in NameFields |-> None]

\* Name::root_default: the attributes that have a default hold it.
NameRootDefault ==
    [f \in NameFields |->
        IF f = "form" THEN Some("long") ELSE IF f = "initialize" THEN Some(TRUE) ELSE None]

\* Name::merge: an attribute the overrider sets wins, any other is kept.
NameMerge(base, overrider) ==
    [f \in NameFields |-> IF IsSome(overrider[f]) THEN overrider[f] ELSE base[f]]

StyleRec(name, default_locale, overrides, add_year_suffix) ==
    [name |-> name, default_locale |-> default_locale,
     locale_overrides |-> overrides,
     disambiguate_add_year_suffix |-> add_year_suffix,
     near_note_distance |-> 5,
     name_inheritance |-> NameUnset,
     citation |-> [name_inheritance |-> NameUnset]]

NoOverrides == [l \in Langs \cup {NoLang} |-> None]
StyleDefault == StyleRec("default", en_us, NoOverrides, FALSE)

StyleText(wellformed, style) == [wellformed |-> wellformed, style |-> style]

\* Style::from_str: Ok(style) or Err(StyleError).
StyleFromStr(text) ==
    IF text.wellformed THEN [ok |-> TRUE, style |-> text.style]
    ELSE [ok |-> FALSE, style |-> StyleDefault]

(***************************************************************************)
(* References, cites and clusters.                                         *)
(***************************************************************************)
Reference(id, language, title) ==
    [id |-> id, language |-> language, title |-> title]
Cite(id, ref_id, locator) == [id |-> id, ref_id |-> ref_id, locator |-> locator]
Cluster(id, cites, note_number) ==
    [id |-> id, cites |-> cites, note_number |-> note_number]

(***************************************************************************)
(* Query keys.  A key is <<query, number, string>>: the query's name and   *)
(* its argument (a cluster or cite id, or a reference id or lang).         *)
(***************************************************************************)
K(q, n, s) == <<q, n, s>>
K0(q) == <<q, 0, "">>

InputKinds ==
    {"style", "locale_input_xml", "locale_input_langs", "reference_input",
     "all_keys", "cite", "cluster_cites", "cluster_note_number", "cluster_ids"}

IsInput(key) == key[1] \in InputKinds

InputKeys ==
    {K0("style"), K0("locale_input_langs"), K0("all_keys"), K0("cluster_ids")}
        \cup {K("locale_input_xml", 0, l) : l \in Langs}
        \cup {K("reference_input", 0, r) : r \in RefIds}
        \cup {K("cite", c, "") : c \in CiteIds}
        \cup {K("cluster_cites", k, "") : k \in ClusterIds}
        \cup {K("cluster_note_number", k, "") : k \in ClusterIds}

DerivedKeys ==
    {K0("default_locale"), K0("all_cite_ids"), K0("cite_positions"),
     K0("year_suffixes")}
        \cup {K("locale_xml", 0, l) : l \in Langs}
        \cup {K("inline_locale", 0, l) : l \in Langs \cup {NoLang}}
        \cup {K("locale", 0, l) : l \in Langs \cup {NoLang}}
        \cup {K("locale", 1, l) : l \in Langs}
        \cup {K("merged_locale", 0, l) : l \in Langs}
        \cup {K("reference", 0, r) : r \in RefIds}
        \cup {K("ir_gen2_add_given_name", c, "") : c \in CiteIds}
        \cup {K("built_cluster", k, "") : k \in ClusterIds}

\* The value a read of an input that was never set stands for (salsa panics).
DefaultValue(key) ==
    CASE key[1] = "style" -> StyleDefault
      [] key[1] = "locale_input_xml" -> GarbageXml
      [] key[1] = "locale_input_langs" -> {}
      [] key[1] = "reference_input" -> Reference(key[3], NoLang, "")
      [] key[1] = "all_keys" -> {}
      [] key[1] = "cite" -> Cite(key[2], "", None)
      [] key[1] = "cluster_cites" -> <<>>
      [] key[1] = "cluster_note_number" -> 0
      [] key[1] = "cluster_ids" -> <<>>

(***************************************************************************)
(* The database.                                                           *)
(*   revision      the runtime's revision counter                          *)
(*   inputs        input key -> None (never set) or Some(stamped value)    *)
(*   memos         derived key -> None or Some(memo)                       *)
(*   queue         the Processor's queue of DocUpdate::Cluster(id)         *)
(*   save_updates  the Processor's flag                                    *)
(*   fetcher       the LocaleFetcher: lang -> Ok(Some xml), Ok(None), Err  *)
(* two fields of the thread that is reading:                               *)
(*   probing       the thread evaluates one query at a time: it reads the  *)
(*                 queries that are up to date and stops at the first that *)
(*                 is not (FALSE where a read brings it up to date itself) *)
(*   need          the query a probing thread stopped at                   *)
(* and four history fields, which no operation reads:                      *)
(*   fetches       lang -> the calls of fetch_string(lang) so far          *)
(*   executed      derived key -> executions in the current revision       *)
(*   will_execute  the keys a WillExecute event was emitted for since the  *)
(*                 queue was last cleared                                  *)
(*   panicked      an input was read that was never set, or the thread     *)
(*                 stopped at need: the query function is unwinding        *)
(***************************************************************************)
FetchSome(xml) == [tag |-> "some", xml |-> xml]
FetchNone == [tag |-> "none", xml |-> GarbageXml]
FetchErr == [tag |-> "err", xml |-> GarbageXml]

NoExecutions == [k \in DerivedKeys |-> 0]

EmptyDb(fetcher) ==
    [revision |-> 0,
     inputs |-> [k \in InputKeys |-> None],
     memos |-> [k \in DerivedKeys |-> None],
     queue |-> <<>>,
     save_updates |-> FALSE,
     fetcher |-> fetcher,
     fetches |-> [l \in Langs |-> 0],
     probing |-> FALSE,
     need |-> None,
     executed |-> NoExecutions,
     will_execute |-> {},
     panicked |-> FALSE]

\* salsa: writing an input starts a new revision and stamps the input with
\* it, whatever the value written.
SetInput(db, key, value) ==
    [db EXCEPT !.revision = db.revision + 1,
               !.inputs[key] = Some([value |-> value, changed_at |-> db.revision + 1]),
               !.executed = NoExecutions]

\* A variant of salsa_event that records the WillExecute of every query, not
\* only of built_cluster.
salsa_event_of_any_query(db, event) ==
    IF ~db.save_updates THEN db
    ELSE IF event.kind = "WillExecute"
    THEN [db EXCEPT !.queue = Append(@, event.key[2])]
    ELSE db

\* A variant of salsa_event that records built_cluster(key) on every kind of
\* event, not only on WillExecute.
salsa_event_of_any_kind(db, event) ==
    IF ~db.save_updates THEN db
    ELSE IF event.key[1] = "built_cluster"
    THEN [db EXCEPT !.queue = Append(@, event.key[2])]
    ELSE db

\* salsa_event: only a WillExecute of built_cluster(key) is recorded, and
\* only when save_updates is set.
salsa_event(db, event) ==
    IF ~db.save_updates THEN db
    ELSE IF event.kind = "WillExecute" /\ event.key[1] = "built_cluster"
    THEN [db EXCEPT !.queue = Append(@, event.key[2])]
    ELSE db

Event(kind, key) == [kind |-> kind, key |-> key]

\* The runtime reports a query's execution before it runs the query.
EmitWillExecute(db, key) ==
    salsa_event([db EXCEPT !.executed[key] = @ + 1,
                           !.will_execute = @ \cup {key}],
                Event("WillExecute", key))

EmitDidValidate(db, key) == salsa_event(db, Event("DidValidateMemoizedValue", key))

\* What a read gives back: the database after it, the value and the revision
\* the value last changed at.
ReadResult(db, value, changed_at) ==
    [db |-> db, value |-> value, changed_at |-> changed_at]

\* The read of an input that was never set panics.
ReadInput(db, key) ==
    IF IsSome(db.inputs[key])
    THEN ReadResult(db, Unwrap(db.inputs[key]).value, Unwrap(db.inputs[key]).changed_at)
    ELSE ReadResult([db EXCEPT !.panicked = TRUE], DefaultValue(key), 0)

RECURSIVE Fetch(_, _)

\* A query function reads through a context, which records what it read.
Ctx(db) == [db |-> db, deps |-> <<>>, changed_at |-> 0]

\* One read.  ok is FALSE when the read panicked: the query function that
\* made it is unwinding and must not go on.
Got(ctx, key, r) ==
    [ok |-> ~r.db.panicked,
     value |-> r.value,
     ctx |-> [db |-> r.db,
              deps |-> IF Contains(ctx.deps, key) THEN ctx.deps
                       ELSE Append(ctx.deps, key),
              changed_at |-> Max(ctx.changed_at, r.changed_at)]]

Get(ctx, key) == Got(ctx, key, Fetch(ctx.db, key))

RECURSIVE GetAllFrom(_, _, _)
\* Reads the keys in order, up to a read that panics; values are those read.
GetAllFrom(ctx, keys, values) ==
    IF keys = <<>> THEN [ok |-> TRUE, values |-> values, ctx |-> ctx]
    ELSE LET With(r) ==
                 IF ~r.ok THEN [ok |-> FALSE, values |-> values, ctx |-> r.ctx]
                 ELSE GetAllFrom(r.ctx, Tail(keys), Append(values, r.value))
         IN  With(Get(ctx, Head(keys)))

GetAll(ctx, keys) == GetAllFrom(ctx, keys, <<>>)

\* What a query function returns: its value and the context it read through.
Result(ctx, value) == [value |-> value, ctx |-> ctx]

\* What a query function whose read r panicked is left with.
Unwind(r) == Result(r.ctx, None)

(***************************************************************************)
(* The locale queries (crates/citeproc-db/src/xml.rs).  Each read of a     *)
(* query function is written LET With(x) == rest IN With(Get(ctx, key)):   *)
(* x is what the read gave and rest is what the function does with it.     *)
(***************************************************************************)
LocaleKey(src) == K("locale", IF src.file THEN 1 ELSE 0, src.lang)

\* get_fetcher().fetch_string(key) as locale_xml matches it: the call is
\* counted in fetches.
fetch_string(ctx, key) ==
    Result([ctx EXCEPT !.db.fetches[key] = @ + 1],
           IF ctx.db.fetcher[key].tag = "some" THEN Some(ctx.db.fetcher[key].xml) ELSE None)

\* A variant of locale_xml that asks the fetcher first and reads the stored
\* locale only where the fetcher has none.
locale_xml_fetcher_first(ctx, key) ==
    LET WithFetched(fetched) ==
            IF IsSome(fetched.value) THEN fetched
            ELSE LET WithStored(stored) ==
                         IF ~stored.ok THEN Unwind(stored)
                         ELSE IF key \in stored.value
                         THEN LET WithXml(x) ==
                                      IF ~x.ok THEN Unwind(x) ELSE Result(x.ctx, Some(x.value))
                              IN  WithXml(Get(stored.ctx, K("locale_input_xml", 0, key)))
                         ELSE Result(stored.ctx, None)
                 IN  WithStored(Get(fetched.ctx, K0("locale_input_langs")))
    IN  WithFetched(fetch_string(ctx, key))

\* locale_xml: a stored locale wins; otherwise the fetcher is asked, and its
\* Ok(None) and its Err both give None.
locale_xml(ctx, key) ==
    LET WithStored(stored) ==
            IF ~stored.ok THEN Unwind(stored)
            ELSE IF key \in stored.value
            THEN LET WithXml(x) == IF ~x.ok THEN Unwind(x) ELSE Result(x.ctx, Some(x.value))
                 IN  WithXml(Get(stored.ctx, K("locale_input_xml", 0, key)))
            ELSE fetch_string(stored.ctx, key)
    IN  WithStored(Get(ctx, K0("locale_input_langs")))

inline_locale(ctx, key) ==
    LET WithStyle(style) ==
            IF ~style.ok THEN Unwind(style)
            ELSE Result(style.ctx, style.value.locale_overrides[key])
    IN  WithStyle(Get(ctx, K0("style")))

\* The locale a locale_xml result parses to: None when there is no XML or it
\* does not parse.
ParsedLocale(string) ==
    IF IsSome(string) /\ LocaleFromStr(Unwrap(string)).ok
    THEN Some(LocaleFromStr(Unwrap(string)).locale)
    ELSE None

\* locale: a File source is the parsed XML; an Inline source is the style's
\* override.
locale(ctx, src) ==
    IF src.file
    THEN LET WithString(string) ==
                 IF ~string.ok THEN Unwind(string)
                 ELSE Result(string.ctx, ParsedLocale(string.value))
         IN  WithString(Get(ctx, K("locale_xml", 0, src.lang)))
    ELSE LET WithInline(l) == IF ~l.ok THEN Unwind(l) ELSE Result(l.ctx, l.value)
         IN  WithInline(Get(ctx, K("inline_locale", 0, src.lang)))

\* A variant of MergeOrder that keeps the order of the chain.
MergeOrderOfChain(locales) == locales

\* The order merged_locale folds the available locales in: reversed, so the
\* root fallback is the base and the requested lang is merged last.
MergeOrder(locales) == Reverse(locales)

RECURSIVE MergeFold(_, _)
\* fold(None, |acc, l| ...): the first locale is the base, each further one
\* is merged into it.
MergeFold(acc, locales) ==
    IF locales = <<>> THEN acc
    ELSE MergeFold(IF IsSome(acc) THEN Some(LocaleMerge(Unwrap(acc), Head(locales)))
                   ELSE Some(Head(locales)),
                   Tail(locales))

\* A variant of FilterMapSome that gives nothing when one element is None.
AllOrNothing(opts) ==
    IF \E i \in 1..Len(opts) : ~IsSome(opts[i]) THEN <<>>
    ELSE [i \in 1..Len(opts) |-> Unwrap(opts[i])]

RECURSIVE FilterMapSome(_)
\* filter_map over a sequence of options.
FilterMapSome(opts) ==
    IF opts = <<>> THEN <<>>
    ELSE IF IsSome(Head(opts)) THEN <<Unwrap(Head(opts))>> \o FilterMapSome(Tail(opts))
    ELSE FilterMapSome(Tail(opts))

LocaleKeys(srcs) == [i \in 1..Len(srcs) |-> LocaleKey(srcs[i])]

\* The fold's result, or the default locale when there was nothing to fold.
UnwrapOrDefault(folded) == IF IsSome(folded) THEN Unwrap(folded) ELSE LocaleDefault

merged_locale(ctx, key) ==
    LET WithLocales(rs) ==
            IF ~rs.ok THEN Unwind(rs)
            ELSE Result(rs.ctx,
                        UnwrapOrDefault(MergeFold(None, MergeOrder(FilterMapSome(rs.values)))))
    IN  WithLocales(GetAll(ctx, LocaleKeys(LangIter(key))))

default_locale(ctx) ==
    LET WithStyle(style) ==
            IF ~style.ok THEN Unwind(style)
            ELSE LET WithLocale(l) == IF ~l.ok THEN Unwind(l) ELSE Result(l.ctx, l.value)
                 IN  WithLocale(Get(style.ctx, K("merged_locale", 0, style.value.default_locale)))
    IN  WithStyle(Get(ctx, K0("style")))

(***************************************************************************)
(* The cite queries and the cluster assembler.                             *)
(***************************************************************************)
\* reference: the reference of an id that is one of all_keys.
reference(ctx, key) ==
    LET WithKeys(keys) ==
            IF ~keys.ok THEN Unwind(keys)
            ELSE IF key \in keys.value
            THEN LET WithRef(r) == IF ~r.ok THEN Unwind(r) ELSE Result(r.ctx, Some(r.value))
                 IN  WithRef(Get(keys.ctx, K("reference_input", 0, key)))
            ELSE Result(keys.ctx, None)
    IN  WithKeys(Get(ctx, K0("all_keys")))

ClusterKeys(q, ids) == [i \in 1..Len(ids) |-> K(q, ids[i], "")]

all_cite_ids(ctx) ==
    LET WithIds(ids) ==
            IF ~ids.ok THEN Unwind(ids)
            ELSE LET WithCites(cc) ==
                         IF ~cc.ok THEN Unwind(cc) ELSE Result(cc.ctx, Flatten(cc.values))
                 IN  WithCites(GetAll(ids.ctx, ClusterKeys("cluster_cites", ids.value)))
    IN  WithIds(Get(ctx, K0("cluster_ids")))

\* The cites of the document in order, each with its index in its cluster
\* and its cluster's note number.
DocItems(cluster_cites, notes, cites) ==
    LET per == [i \in 1..Len(cluster_cites) |->
                   [j \in 1..Len(cluster_cites[i]) |->
                       [index |-> j, note |-> notes[i]]]]
        flat == Flatten(per)
    IN  [n \in 1..Len(flat) |->
            [index |-> flat[n].index, note |-> flat[n].note,
             id |-> cites[n].id, ref_id |-> cites[n].ref_id,
             locator |-> cites[n].locator]]

\* The position of the n-th cite of the document.
PositionAt(items, n, near_note_distance) ==
    LET it == items[n]
        earlier == {m \in 1..(n - 1) : items[m].ref_id = it.ref_id}
    IN  IF it.index > 1 /\ items[n - 1].ref_id = it.ref_id
        THEN IF IsSome(it.locator) THEN "IbidWithLocator" ELSE "Ibid"
        ELSE IF earlier = {} THEN "First"
        ELSE LET last == CHOOSE m \in earlier : \A m2 \in earlier : m2 <= m
             IN  IF it.note - items[last].note <= near_note_distance
                 THEN "NearNote" ELSE "Subsequent"

\* The position of every cite of the document, by cite id.
Positions(items, near_note_distance) ==
    [c \in {items[n].id : n \in 1..Len(items)} |->
        PositionAt(items,
                   CHOOSE n \in 1..Len(items) :
                       /\ items[n].id = c
                       /\ \A m \in 1..Len(items) : items[m].id = c => m <= n,
                   near_note_distance)]

cite_positions(ctx) ==
    LET WithIds(ids) ==
            IF ~ids.ok THEN Unwind(ids) ELSE
            LET WithClusterCites(cc) ==
                    IF ~cc.ok THEN Unwind(cc) ELSE
                    LET WithNotes(nn) ==
                            IF ~nn.ok THEN Unwind(nn) ELSE
                            LET WithCites(cs) ==
                                    IF ~cs.ok THEN Unwind(cs) ELSE
                                    LET WithStyle(style) ==
                                            IF ~style.ok THEN Unwind(style)
                                            ELSE Result(style.ctx,
                                                        Positions(DocItems(cc.values, nn.values,
                                                                           cs.values),
                                                                  style.value.near_note_distance))
                                    IN  WithStyle(Get(cs.ctx, K0("style")))
                            IN  WithCites(GetAll(nn.ctx, ClusterKeys("cite", Flatten(cc.values))))
                    IN  WithNotes(GetAll(cc.ctx, ClusterKeys("cluster_note_number", ids.value)))
            IN  WithClusterCites(GetAll(ids.ctx, ClusterKeys("cluster_cites", ids.value)))
    IN  WithIds(Get(ctx, K0("cluster_ids")))

\* The IR of cite key from the cite, its reference and the positions.
Ir(key, cite, refr, positions) ==
    [ref_id |-> cite.ref_id,
     title |-> IF IsSome(refr) THEN Some(Unwrap(refr).title) ELSE None,
     locator |-> cite.locator,
     position |-> IF key \in DOMAIN positions THEN positions[key] ELSE "First"]

\* The IR of a cite after the add-names and add-givenname stages.
ir_gen2_add_given_name(ctx, key) ==
    LET WithCite(cite) ==
            IF ~cite.ok THEN Unwind(cite) ELSE
            LET WithRef(refr) ==
                    IF ~refr.ok THEN Unwind(refr) ELSE
                    LET WithPositions(pos) ==
                            IF ~pos.ok THEN Unwind(pos)
                            ELSE Result(pos.ctx, Ir(key, cite.value, refr.value, pos.value))
                    IN  WithPositions(Get(refr.ctx, K0("cite_positions")))
            IN  WithRef(Get(cite.ctx, K("reference", 0, cite.value.ref_id)))
    IN  WithCite(Get(ctx, K("cite", key, "")))

\* The year suffix of each cited reference: 0 when no other cited reference
\* renders alike, else its rank among those that do, in citation order.
YearSuffixes(irs) ==
    LET known == {n \in 1..Len(irs) : IsSome(irs[n].title)}
        first(r) == CHOOSE n \in known :
                        /\ irs[n].ref_id = r
                        /\ \A m \in known : irs[m].ref_id = r => n <= m
        refs == {irs[n].ref_id : n \in known}
        alike(r) == {r2 \in refs : irs[first(r2)].title = irs[first(r)].title}
    IN  [r \in refs |->
            IF Cardinality(alike(r)) < 2 THEN 0
            ELSE Cardinality({r2 \in alike(r) : first(r2) <= first(r)})]

year_suffixes(ctx) ==
    LET WithStyle(style) ==
            IF ~style.ok THEN Unwind(style) ELSE
            LET WithIds(ids) ==
                    IF ~ids.ok THEN Unwind(ids) ELSE
                    LET WithIrs(irs) ==
                            IF ~irs.ok THEN Unwind(irs)
                            ELSE Result(irs.ctx,
                                        IF style.value.disambiguate_add_year_suffix
                                        THEN YearSuffixes(irs.values)
                                        ELSE YearSuffixes(<<>>))
                    IN  WithIrs(GetAll(ids.ctx, ClusterKeys("ir_gen2_add_given_name", ids.value)))
            IN  WithIds(Get(style.ctx, K0("all_cite_ids")))
    IN  WithStyle(Get(ctx, K0("style")))

\* The rendering of the cites of a cluster: each from its IR, its year suffix
\* and, for a locator, the locale's term.
Rendered(style, terms, suffixes, cites, irs) ==
    [i \in 1..Len(cites) |->
        [style |-> style.name,
         title |-> irs[i].title,
         suffix |-> IF irs[i].ref_id \in DOMAIN suffixes
                    THEN suffixes[irs[i].ref_id] ELSE 0,
         position |-> irs[i].position,
         locator |-> cites[i].locator,
         label |-> IF IsSome(cites[i].locator) THEN terms ELSE None]]

\* built_cluster: an empty cluster is the empty output.
built_cluster(ctx, key) ==
    LET WithClusterCites(cites) ==
            IF ~cites.ok THEN Unwind(cites) ELSE
            LET WithStyle(style) ==
                    IF ~style.ok THEN Unwind(style) ELSE
                    LET WithLocale(loc) ==
                            IF ~loc.ok THEN Unwind(loc) ELSE
                            LET WithSuffixes(ys) ==
                                    IF ~ys.ok THEN Unwind(ys) ELSE
                                    LET WithCites(cs) ==
                                            IF ~cs.ok THEN Unwind(cs) ELSE
                                            LET WithIrs(irs) ==
                                                    IF ~irs.ok THEN Unwind(irs)
                                                    ELSE Result(irs.ctx,
                                                                Rendered(style.value,
                                                                         loc.value["terms"],
                                                                         ys.value, cs.values,
                                                                         irs.values))
                                            IN  WithIrs(GetAll(cs.ctx,
                                                               ClusterKeys("ir_gen2_add_given_name",
                                                                           cites.value)))
                                    IN  WithCites(GetAll(ys.ctx, ClusterKeys("cite", cites.value)))
                            IN  WithSuffixes(Get(loc.ctx, K0("year_suffixes")))
                    IN  WithLocale(Get(style.ctx, K0("default_locale")))
            IN  WithStyle(Get(cites.ctx, K0("style")))
    IN  WithClusterCites(Get(ctx, K("cluster_cites", key, "")))

(***************************************************************************)
(* The runtime: executing, validating and fetching a memoised query.       *)
(***************************************************************************)
\* The query function of a derived key.
QueryFunction(ctx, key) ==
    CASE key[1] = "locale_xml" -> locale_xml(ctx, key[3])
      [] key[1] = "inline_locale" -> inline_locale(ctx, key[3])
      [] key[1] = "locale" -> locale(ctx, IF key[2] = 1 THEN File(key[3]) ELSE Inline(key[3]))
      [] key[1] = "merged_locale" -> merged_locale(ctx, key[3])
      [] key[1] = "default_locale" -> default_locale(ctx)
      [] key[1] = "reference" -> reference(ctx, key[3])
      [] key[1] = "all_cite_ids" -> all_cite_ids(ctx)
      [] key[1] = "cite_positions" -> cite_positions(ctx)
      [] key[1] = "ir_gen2_add_given_name" -> ir_gen2_add_given_name(ctx, key[2])
      [] key[1] = "year_suffixes" -> year_suffixes(ctx)
      [] key[1] = "built_cluster" -> built_cluster(ctx, key[2])

Memo(value, verified_at, changed_at, deps) ==
    [value |-> value, verified_at |-> verified_at,
     changed_at |-> changed_at, deps |-> deps]

\* The revision the value r of key last changed at: a value equal to the
\* memoised one keeps the memo's.
ChangedAt(db, key, r) ==
    IF IsSome(db.memos[key]) /\ Unwrap(db.memos[key]).value = r.value
    THEN Unwrap(db.memos[key]).changed_at
    ELSE r.ctx.changed_at

\* Memoises the value r of a query function with what it read; a query
\* function that panicked leaves no memo.  db is the database before the
\* function ran.
Memoise(db, key, r) ==
    IF r.ctx.db.panicked THEN ReadResult(r.ctx.db, r.value, 0)
    ELSE ReadResult([r.ctx.db EXCEPT !.memos[key] =
                        Some(Memo(r.value, r.ctx.db.revision,
                                  ChangedAt(db, key, r), r.ctx.deps))],
                    r.value, ChangedAt(db, key, r))

RECURSIVE ExecuteBody(_, _)
\* Runs the query function from an empty context; the function's reads may
\* execute queries in turn.
ExecuteBody(db, key) == Memoise(db, key, QueryFunction(Ctx(db), key))

Execute(db, key) == ExecuteBody(EmitWillExecute(db, key), key)

\* A variant of DepsChanged that takes every memo for valid.
DepsNeverChanged(db, deps, since) == [db |-> db, changed |-> FALSE]

RECURSIVE DepsChanged(_, _, _)
\* Whether one of the recorded dependencies changed after revision since:
\* each is brought up to date in turn, stopping at the first that changed.
DepsChanged(db, deps, since) ==
    IF deps = <<>> THEN [db |-> db, changed |-> FALSE]
    ELSE LET With(r) ==
                 IF r.db.panicked THEN [db |-> r.db, changed |-> FALSE]
                 ELSE IF r.changed_at > since THEN [db |-> r.db, changed |-> TRUE]
                 ELSE DepsChanged(r.db, Tail(deps), since)
         IN  With(Fetch(db, Head(deps)))

\* A memo is current when it was verified in this revision.
IsCurrent(db, key) ==
    IsSome(db.memos[key]) /\ Unwrap(db.memos[key]).verified_at = db.revision

Validated(db, key) ==
    LET m == Unwrap(db.memos[key])
    IN  ReadResult(EmitDidValidate([db EXCEPT !.memos[key] =
                                        Some([m EXCEPT !.verified_at = db.revision])],
                                   key),
                   m.value, m.changed_at)

\* A probing thread stops at key.
Stopped(db, key) == ReadResult([db EXCEPT !.need = Some(key), !.panicked = TRUE], None, 0)

Fetch(db, key) ==
    IF IsInput(key) THEN ReadInput(db, key)
    ELSE IF IsCurrent(db, key)
    THEN ReadResult(db, Unwrap(db.memos[key]).value, Unwrap(db.memos[key]).changed_at)
    ELSE IF db.probing THEN Stopped(db, key)
    ELSE IF ~IsSome(db.memos[key]) THEN Execute(db, key)
    ELSE LET With(v) == IF v.db.panicked THEN ReadResult(v.db, None, 0)
                        ELSE IF v.changed THEN Execute(v.db, key)
                        ELSE Validated(v.db, key)
         IN  With(DepsChanged(db, Unwrap(db.memos[key]).deps,
                              Unwrap(db.memos[key]).verified_at))

(***************************************************************************)
(* The Processor (crates/citeproc/src/db/mod.rs).  A method that returns a *)
(* value gives back a record of the database and the value.                *)
(***************************************************************************)
\* A sequence of input writes [key, value] made in order: each starts a new
\* revision and stamps its input with it; of two writes of one input the
\* later stands.
SetInputs(db, writes) ==
    [db EXCEPT
        !.revision = db.revision + Len(writes),
        !.inputs = [k \in InputKeys |->
                       LET at == {i \in 1..Len(writes) : writes[i].key = k}
                           i == CHOOSE i \in at : \A j \in at : j <= i
                       IN  IF at = {} THEN db.inputs[k]
                           ELSE Some([value |-> writes[i].value,
                                      changed_at |-> db.revision + i])],
        !.executed = IF writes = <<>> THEN @ ELSE NoExecutions]

Write(key, value) == [key |-> key, value |-> value]

set_style(db, style) == SetInput(db, K0("style"), style)
set_all_keys(db, keys) == SetInput(db, K0("all_keys"), keys)
set_cluster_ids(db, ids) == SetInput(db, K0("cluster_ids"), ids)
set_cluster_cites(db, id, cites) == SetInput(db, K("cluster_cites", id, ""), cites)
set_cluster_note_number(db, id, nn) == SetInput(db, K("cluster_note_number", id, ""), nn)
set_locale_input_langs(db, langs) == SetInput(db, K0("locale_input_langs"), langs)

\* The inputs every query of a new processor may read are set to defaults.
safe_default(fetcher) ==
    set_locale_input_langs(
        set_cluster_ids(
            set_all_keys(set_style(EmptyDb(fetcher), StyleDefault), {}),
            <<>>),
        {})

\* Processor::new: Err(StyleError) when the style does not parse.
new(style_string, fetcher, save_updates) ==
    LET db == [safe_default(fetcher) EXCEPT !.save_updates = save_updates]
        style == StyleFromStr(style_string)
    IN  IF style.ok THEN [ok |-> TRUE, db |-> set_style(db, style.style)]
        ELSE [ok |-> FALSE, db |-> db]

\* A variant of set_style_text that falls back to the default style when the
\* text does not parse.
set_style_text_or_default(db, style_text) ==
    LET style == StyleFromStr(style_text)
    IN  IF style.ok THEN [ok |-> TRUE, db |-> set_style(db, style.style)]
        ELSE [ok |-> FALSE, db |-> set_style(db, StyleDefault)]

set_style_text(db, style_text) ==
    LET style == StyleFromStr(style_text)
    IN  IF style.ok THEN [ok |-> TRUE, db |-> set_style(db, style.style)]
        ELSE [ok |-> FALSE, db |-> db]

RECURSIVE FetchEach(_, _)
\* Evaluates the queries in order, up to one that panics.
FetchEach(db, keys) ==
    IF keys = <<>> THEN db
    ELSE LET With(r) == IF r.db.panicked THEN r.db ELSE FetchEach(r.db, Tail(keys))
         IN  With(Fetch(db, Head(keys)))

\* A variant of ComputeTargets that leaves out the last cluster.
ComputeTargetsButLast(cluster_ids) ==
    ClusterKeys("built_cluster", SubSeq(cluster_ids, 1, Len(cluster_ids) - 1))

\* The clusters compute() builds: every id of cluster_ids, in order.
ComputeTargets(cluster_ids) == ClusterKeys("built_cluster", cluster_ids)

\* compute() without the rayon feature.
compute(db) ==
    FetchEach(db, ComputeTargets(ReadInput(db, K0("cluster_ids")).value))

\* UpdateSummary::summarize: the cluster ids recorded in the queue.
summarize(db, queue) == {queue[i] : i \in 1..Len(queue)}

ClearQueue(db) == [db EXCEPT !.queue = <<>>, !.will_execute = {}]

\* What a call that evaluated queries gives back: the database it leaves, its
\* summary and the queries whose execution was reported up to it.
Evaluated(db, summary, executed) == [db |-> db, summary |-> summary, executed |-> executed]

\* A variant of TakeSummary that leaves the queue as it is.
TakeSummaryKeepQueue(db) == Evaluated(db, summarize(db, db.queue), db.will_execute)

\* The part of batched_updates() that follows compute().
TakeSummary(db) == Evaluated(ClearQueue(db), summarize(db, db.queue), db.will_execute)

\* A variant of batched_updates that reports only the clusters of
\* cluster_ids.
batched_updates_of_registered(db) ==
    IF ~db.save_updates THEN Evaluated(db, {}, {})
    ELSE LET With(r) ==
                 Evaluated(r.db,
                           r.summary \cap {ReadInput(r.db, K0("cluster_ids")).value[i] :
                                              i \in 1..Len(ReadInput(r.db, K0("cluster_ids")).value)},
                           r.executed)
         IN  With(TakeSummary(compute(db)))

batched_updates(db) ==
    IF ~db.save_updates THEN Evaluated(db, {}, {})
    ELSE TakeSummary(compute(db))

\* The part of drain() that follows compute().
DropSummary(db) == Evaluated(ClearQueue(db), {}, db.will_execute)

\* A variant of drain that clears the queue and computes nothing.
drain_without_compute(db) == DropSummary(db)

drain(db) == DropSummary(compute(db))

RefWrites(refs) ==
    [i \in 1..Len(refs) |-> Write(K("reference_input", 0, refs[i].id), refs[i])]

set_references(db, refs) ==
    set_all_keys(SetInputs(db, RefWrites(refs)),
                 {refs[i].id : i \in 1..Len(refs)})

insert_reference(db, refr) == set_references(db, <<refr>>)

CiteIdsOf(cluster) == [i \in 1..Len(cluster.cites) |-> cluster.cites[i].id]

CiteWrites(cluster) ==
    [i \in 1..Len(cluster.cites) |->
        Write(K("cite", cluster.cites[i].id, ""), cluster.cites[i])]

\* The writes every cluster setter makes for the cluster: its cites, then
\* cluster_cites, then cluster_note_number.
ClusterWrites(cluster) ==
    CiteWrites(cluster)
        \o <<Write(K("cluster_cites", cluster.id, ""), CiteIdsOf(cluster)),
             Write(K("cluster_note_number", cluster.id, ""), cluster.note_number)>>

init_clusters(db, clusters) ==
    set_cluster_ids(
        SetInputs(db, Flatten([i \in 1..Len(clusters) |-> ClusterWrites(clusters[i])])),
        [i \in 1..Len(clusters) |-> clusters[i].id])

\* A variant of remove_cluster that leaves cluster_cites as it is.
remove_cluster_keeping_cites(db, id) ==
    set_cluster_ids(db, FilterSeq(ReadInput(db, K0("cluster_ids")).value, id))

remove_cluster(db, id) ==
    LET db1 == set_cluster_cites(db, id, <<>>)
        cluster_ids == ReadInput(db1, K0("cluster_ids")).value
    IN  set_cluster_ids(db1, FilterSeq(cluster_ids, id))

\* A variant of replace_cluster that appends the id whether or not it is
\* registered.
replace_cluster_appending(db, cluster) ==
    SetInputs(set_cluster_ids(db, Append(ReadInput(db, K0("cluster_ids")).value, cluster.id)),
              ClusterWrites(cluster))

replace_cluster(db, cluster) ==
    LET cluster_ids == ReadInput(db, K0("cluster_ids")).value
        db1 == IF ~Contains(cluster_ids, cluster.id)
               THEN set_cluster_ids(db, Append(cluster_ids, cluster.id))
               ELSE db
    IN  SetInputs(db1, ClusterWrites(cluster))

\* A variant of insert_cluster that registers the id and writes nothing of
\* the cluster.
insert_cluster_ids_only(db, cluster, before) ==
    set_cluster_ids(db, Append(ReadInput(db, K0("cluster_ids")).value, cluster.id))

\* A variant of insert_cluster that places the id last whatever before is.
insert_cluster_last(db, cluster, before) ==
    SetInputs(set_cluster_ids(db, Append(ReadInput(db, K0("cluster_ids")).value, cluster.id)),
              ClusterWrites(cluster))

\* Vec::insert(pos, x): x is placed before the element at pos.
InsertAt(seq, pos, x) ==
    [i \in 1..(Len(seq) + 1) |->
        IF i < pos THEN seq[i] ELSE IF i = pos THEN x ELSE seq[i - 1]]

\* The first index of x in seq, 0 when there is none.
Position(seq, x) ==
    IF Contains(seq, x)
    THEN CHOOSE i \in 1..Len(seq) : seq[i] = x /\ \A j \in 1..(i - 1) : seq[j] # x
    ELSE 0

insert_cluster(db, cluster, before) ==
    LET cluster_ids == ReadInput(db, K0("cluster_ids")).value
        new_cluster_ids ==
            IF IsSome(before)
            THEN IF Position(cluster_ids, Unwrap(before)) # 0
                 THEN InsertAt(cluster_ids, Position(cluster_ids, Unwrap(before)), cluster.id)
                 ELSE cluster_ids
            ELSE Append(cluster_ids, cluster.id)
    IN  SetInputs(set_cluster_ids(db, new_cluster_ids), ClusterWrites(cluster))

\* chunks_exact(2): the consecutive pairs; a trailing element is left out.
ChunksExact2(mappings) ==
    [i \in 1..(Len(mappings) \div 2) |-> <<mappings[2 * i - 1], mappings[2 * i]>>]

\* A variant of renumber_clusters in which the first pair of an id stands.
renumber_clusters_first_wins(db, mappings) ==
    SetInputs(db, Reverse([i \in 1..Len(ChunksExact2(mappings)) |->
                      Write(K("cluster_note_number", ChunksExact2(mappings)[i][1], ""),
                            ChunksExact2(mappings)[i][2])]))

renumber_clusters(db, mappings) ==
    SetInputs(db, [i \in 1..Len(ChunksExact2(mappings)) |->
                      Write(K("cluster_note_number", ChunksExact2(mappings)[i][1], ""),
                            ChunksExact2(mappings)[i][2])])

get_cluster(db, id) == Fetch(db, K("built_cluster", id, ""))

RECURSIVE StoreLocaleWrites(_, _)
\* store_locales' loop: each XML is stored under its lang as given.
StoreLocaleWrites(db, locales) ==
    IF locales = <<>> THEN db
    ELSE StoreLocaleWrites(
             SetInput(db, K("locale_input_xml", 0, Head(locales)[1]), Head(locales)[2]),
             Tail(locales))

\* The entries of locales whose XML parses.
Parsing(locales) == SelectSeq(locales, LAMBDA e : LocaleFromStr(e[2]).ok)

\* A variant of store_locales that stores only the XML that parses.
store_locales_that_parse(db, locales) ==
    set_locale_input_langs(
        StoreLocaleWrites(db, Parsing(locales)),
        ReadInput(db, K0("locale_input_langs")).value
            \cup {Parsing(locales)[i][1] : i \in 1..Len(Parsing(locales))})

store_locales(db, locales) ==
    LET langs == ReadInput(db, K0("locale_input_langs")).value
    IN  set_locale_input_langs(
            StoreLocaleWrites(db, locales),
            langs \cup {locales[i][1] : i \in 1..Len(locales)})

has_cached_locale(db, lang) == lang \in ReadInput(db, K0("locale_input_langs")).value

get_reference(db, ref_id) == Fetch(db, K("reference", 0, ref_id))

\* A variant of name_citation that merges the citation's options first.
name_citation_style_last(db) ==
    LET With(style) ==
            NameMerge(NameMerge(NameRootDefault, style.citation.name_inheritance),
                      style.name_inheritance)
    IN  With(ReadInput(db, K0("style")).value)

\* name_citation: the root default, overridden by the style's name
\* options, overridden by the citation's.
name_citation(db) ==
    LET With(style) ==
            NameMerge(NameMerge(NameRootDefault, style.name_inheritance),
                      style.citation.name_inheritance)
    IN  With(ReadInput(db, K0("style")).value)

RECURSIVE VecOf(_)
\* The elements of a set, each once, in the order an iteration visits them.
VecOf(S) ==
    IF S = {} THEN <<>>
    ELSE LET x == CHOOSE y \in S : TRUE IN <<x>> \o VecOf(S \ {x})

\* The languages of the references read: a reference that is not there, or
\* has no language, gives none.
LanguagesOf(refs) ==
    {Unwrap(refs[i]).language :
        i \in {j \in 1..Len(refs) : IsSome(refs[j]) /\ Unwrap(refs[j]).language # NoLang}}

\* A variant of get_langs_in_use that gives the default locale only.
get_langs_in_use_of_style(db) ==
    ReadResult(db, {ReadInput(db, K0("style")).value.default_locale}, 0)

\* A variant of get_langs_in_use that leaves out en-US.
get_langs_in_use_but_en_us(db) ==
    LET WithRefs(refs) ==
            ReadResult(refs.ctx.db,
                       (LanguagesOf(refs.values)
                           \cup {ReadInput(refs.ctx.db, K0("style")).value.default_locale})
                           \ {en_us},
                       0)
        WithKeys(keys) ==
            WithRefs(GetAll(Ctx(keys.db),
                            [i \in 1..Len(VecOf(keys.value)) |->
                                K("reference", 0, VecOf(keys.value)[i])]))
    IN  WithKeys(ReadInput(db, K0("all_keys")))

\* get_langs_in_use: the language of every reference of all_keys that has
\* one, and the style's default locale; a set, handed out as a Vec.
get_langs_in_use(db) ==
    LET WithRefs(refs) ==
            ReadResult(refs.ctx.db,
                       LanguagesOf(refs.values)
                           \cup {ReadInput(refs.ctx.db, K0("style")).value.default_locale},
                       0)
        WithKeys(keys) ==
            WithRefs(GetAll(Ctx(keys.db),
                            [i \in 1..Len(VecOf(keys.value)) |->
                                K("reference", 0, VecOf(keys.value)[i])]))
    IN  WithKeys(ReadInput(db, K0("all_keys")))

(***************************************************************************)
(* compute() with the rayon feature.  compute() hands a snapshot to each   *)
(* of its two parallel loops; every worker thread of a loop works on a     *)
(* clone of it.  A snapshot shares the storage and the queue of the        *)
(* processor; its own is the revision it reads at.                         *)
(*   phase   "idle", or where compute() is: in the loop "ir", at the call  *)
(*           of year_suffixes between the loops ("suffixes"), in the loop  *)
(*           "clusters"                                                    *)
(*   todo    the items of the loop no worker has taken                     *)
(*   stacks  worker -> the queries the worker is evaluating, the innermost *)
(*           last                                                          *)
(*   snaps   holder -> None or Some(revision of its snapshot); holder 0 is *)
(*           compute() itself                                              *)
(*   mark    the length of the queue when compute() was called             *)
(***************************************************************************)
MaxWorkers == 2

Workers == 1..MaxWorkers
Holders == {0} \cup Workers

NotComputing ==
    [phase |-> "idle", todo |-> <<>>, stacks |-> [w \in Workers |-> <<>>],
     snaps |-> [h \in Holders |-> None], mark |-> 0]

\* snap(): a snapshot of the processor.
snap(db) == Some(db.revision)

\* compute() enters a loop with a snapshot made for it.
Loop(p, db, phase, todo) ==
    [p EXCEPT !.phase = phase, !.todo = todo, !.snaps[0] = snap(db)]

\* A variant of the end of a loop that keeps the snapshots.
KeepSnapshots(p) == p

\* The loop returned: its snapshot and the workers' clones are dropped.
DropSnapshots(p) == [p EXCEPT !.snaps = [h \in Holders |-> None]]

\* No snapshot is alive: a write may go ahead.
Writable(p) == p.phase = "idle" /\ \A h \in Holders : p.snaps[h] = None

\* The queries the workers other than w are evaluating.
InProgress(p, w) ==
    UNION {{p.stacks[v][i].key : i \in 1..Len(p.stacks[v])} : v \in Workers \ {w}}

\* A variant of CanClaim that lets two threads evaluate one query.
CanClaimAlways(p, w, key) == TRUE

\* A thread that reads a query another thread is evaluating waits for it.
CanClaim(p, w, key) == key \notin InProgress(p, w)

\* The thread that claims a stale query verifies its memo, or executes it
\* where there is none; the runtime reports the execution.
Frame(db, key) == [key |-> key, phase |-> IF IsSome(db.memos[key]) THEN "verify" ELSE "execute"]

\* A variant of Claimed in which the thread's snapshot has a queue of its
\* own: the execution is counted and the processor's queue gets nothing.
ClaimedUnreported(db, key) ==
    IF IsSome(db.memos[key]) THEN db
    ELSE [db EXCEPT !.executed[key] = @ + 1, !.will_execute = @ \cup {key}]

Claimed(db, key) == IF IsSome(db.memos[key]) THEN db ELSE EmitWillExecute(db, key)

Top(stack) == stack[Len(stack)]

Pushed(p, w, frame) == [p EXCEPT !.stacks[w] = Append(@, frame)]

Popped(p, w) == [p EXCEPT !.stacks[w] = SubSeq(@, 1, Len(@) - 1)]

Executing(p, w) == [p EXCEPT !.stacks[w][Len(p.stacks[w])].phase = "execute"]

\* The thread reads as far as the queries that are up to date reach.
Probing(db) == [db EXCEPT !.probing = TRUE]

\* What the thread leaves when it is through with a query.
Released(db) == [db EXCEPT !.probing = FALSE]

Outcome(kind, db, key) == [kind |-> kind, db |-> db, key |-> key]

\* The next step of the thread that is evaluating frame, and the database it
\* leaves:
\*   "need"     a query it reads is not up to date: key is that query, which
\*              the thread evaluates first, or waits for
\*   "execute"  a dependency of the memo changed: the query executes again
\*   "done"     the memo is validated, or the query function returned and
\*              its value is memoised
\*   "panic"    an input it reads was never set
\* A query function is a function of what it reads, so it gives after the
\* queries it needs are up to date what it gives when it evaluates them on
\* its way.
Advance(d, frame) ==
    IF frame.phase = "verify"
    THEN LET With(v) ==
                 IF IsSome(v.db.need) THEN Outcome("need", d, Unwrap(v.db.need))
                 ELSE IF v.db.panicked THEN Outcome("panic", Released(v.db), frame.key)
                 ELSE IF v.changed
                 THEN Outcome("execute", EmitWillExecute(d, frame.key), frame.key)
                 ELSE Outcome("done", Validated(d, frame.key).db, frame.key)
         IN  With(DepsChanged(Probing(d), Unwrap(d.memos[frame.key]).deps,
                              Unwrap(d.memos[frame.key]).verified_at))
    ELSE LET With(r) ==
                 IF IsSome(r.db.need) THEN Outcome("need", d, Unwrap(r.db.need))
                 ELSE IF r.db.panicked THEN Outcome("panic", Released(r.db), frame.key)
                 ELSE Outcome("done", Released(r.db), frame.key)
         IN  With(ExecuteBody(Probing(d), frame.key))

(***************************************************************************)
(* The embedding wrapper (bindings/ffi/src/lib.rs).                        *)
(***************************************************************************)
\* citeproc_rs_write_locale_slot: the XML is parsed first and a parse error
\* panics; otherwise (lang, xml) is pushed onto the storage.
write_locale_slot(locales, lang, xml) ==
    IF ~LocaleFromStr(xml).ok THEN [ok |-> FALSE, locales |-> locales]
    ELSE [ok |-> TRUE, locales |-> Append(locales, <<lang, xml>>)]

\* preview_cluster_id: the id the tentative cluster goes by, which is no
\* registered cluster's.
preview_cluster_id(db) ==
    CHOOSE k \in ClusterIds : ~Contains(ReadInput(db, K0("cluster_ids")).value, k)

\* preview_citation_cluster: formats a tentative cluster of the cites on a
\* snapshot; the queries it reads are evaluated and no input is written.
preview_citation_cluster(db, ref_ids, cluster) ==
    LET With(r) ==
            [ok |-> ~r.db.panicked /\ IsSome(r.value),
             db |-> FetchEach(r.db, <<K0("default_locale")>>)]
    IN  With(Fetch(db, K("reference", 0, ref_ids[1])))

\* A variant of format_one that inserts the cluster it formats.
format_one_registering(db, refr) ==
    LET WithId(d, cluster) ==
            [ok |-> TRUE,
             db |-> get_cluster(
                        insert_cluster(d, Cluster(cluster, <<Cite(MaxCiteId, refr.id, None)>>, 1),
                                       None),
                        cluster).db]
        With(d) == WithId(d, preview_cluster_id(d))
    IN  With(insert_reference(db, refr))

\* citeproc_rs_processor_format_one, given a reference that parsed: the
\* reference is inserted, then a cluster of one cite of it is previewed.
format_one(db, refr) ==
    LET WithId(d, cluster) == preview_citation_cluster(d, <<refr.id>>, cluster)
        With(d) == WithId(d, preview_cluster_id(d))
    IN  With(insert_reference(db, refr))

\* A variant of Skipped that skips no lang.
SkippedNever(lang) == FALSE

\* LocaleFetcher::build: the loop goes on to the next lang at en-US.
Skipped(lang) == lang = en_us

\* LocaleFetcher::build: the callback, when there is one, is called with
\* the slot of every lang the loop does not skip.
Invoked(callback, lang) == callback /\ ~Skipped(lang)

\* citeproc_rs_processor_new: build() is called when there are langs in use
\* and a callback was given.
Fetching(langs, callback) == langs # {} /\ callback

(***************************************************************************)
(* The specification: one processor and the calls made on it.              *)
(*   db     the processor                                                  *)
(*   last   the last call and what it returned                             *)
(*   since  what the input setters did since the queue was last cleared    *)
(*   calls  the number of calls made                                       *)
(*   slot   the LocaleStorage the embedding wrapper fills for a new        *)
(*          processor                                                      *)
(*   par    the compute() in progress of a processor built with rayon      *)
(***************************************************************************)
VARIABLES db, last, since, calls, slot, par

vars == <<db, last, since, calls, slot, par>>

\* The wrapper is not building a processor.
NoSlot == [open |-> FALSE, locales |-> <<>>]

\* The arguments the calls are made with.
Locators == {None, Some(1)}
Titles == {"t1", "t2"}

StyleA == StyleRec("A", "en-US", NoOverrides, TRUE)
StyleB == StyleRec("B", "fr-FR", NoOverrides, FALSE)
StyleTexts == {StyleText(TRUE, StyleA), StyleText(TRUE, StyleB), StyleText(FALSE, StyleDefault)}

TermsOf(lang) == [f \in LocaleFields |-> IF f = "terms" THEN Some(lang) ELSE None]
BundledFetcher ==
    [l \in Langs |-> IF l = en_us THEN FetchSome(LocaleXml(TRUE, TermsOf(en_us)))
                     ELSE FetchNone]
LocaleLists ==
    {<<<<"fr-FR", LocaleXml(TRUE, TermsOf("fr-FR"))>>>>, <<<<"fr-FR", GarbageXml>>>>}

RefLists == {<<Reference("r1", NoLang, "t1"), Reference("r2", NoLang, t)>> : t \in Titles}
InsertedRefs == {Reference("r2", NoLang, "t2")}

\* Cluster 1 cites r1 twice, the second time with or without a locator;
\* cluster 2 cites r1 or r2 once.
ClusterValues ==
    {Cluster(1, <<Cite(1, "r1", None), Cite(2, "r1", l)>>, 1) : l \in Locators}
        \cup {Cluster(2, <<Cite(3, r, None)>>, 2) : r \in RefIds}
FirstCluster == Cluster(1, <<Cite(1, "r1", None), Cite(2, "r1", None)>>, 1)
ClusterLists ==
    {<<FirstCluster>>} \cup {<<FirstCluster, c2>> : c2 \in {c \in ClusterValues : c.id = 2}}
InsertedClusters == {Cluster(2, <<Cite(3, "r2", None)>>, 2)}
Mappings == {<<1, 1>>, <<2, 7>>}

\* The value of every input, without its stamp.
InputValues(d) ==
    [k \in InputKeys |-> IF IsSome(d.inputs[k]) THEN Some(Unwrap(d.inputs[k]).value) ELSE None]

\* The inputs d2 holds with a newer stamp than d does.
Written(d, d2) == {k \in InputKeys : d2.inputs[k] # d.inputs[k]}

\* Whether cluster is the registered cluster of its id with the locator of
\* exactly one cite changed and nothing else.
LocatorEdit(d, cluster) ==
    /\ Contains(Unwrap(d.inputs[K0("cluster_ids")]).value, cluster.id)
    /\ IsSome(d.inputs[K("cluster_cites", cluster.id, "")])
    /\ Unwrap(d.inputs[K("cluster_cites", cluster.id, "")]).value = CiteIdsOf(cluster)
    /\ Unwrap(d.inputs[K("cluster_note_number", cluster.id, "")]).value = cluster.note_number
    /\ \E i \in 1..Len(cluster.cites) :
          \A j \in 1..Len(cluster.cites) :
              LET old == Unwrap(d.inputs[K("cite", cluster.cites[j].id, "")]).value
              IN  /\ old.ref_id = cluster.cites[j].ref_id
                  /\ (old.locator = cluster.cites[j].locator) <=> (j # i)

NothingSince == [kind |-> "none", id |-> 0, written |-> {}]

\* since after a setter took d to d2: "same" while every setter rewrote equal
\* values, "locator" for one replace_cluster that edited one locator of
\* cluster id, "other" otherwise.
Setter(op, id, d, d2) ==
    [kind |-> IF since.kind \in {"none", "same"} /\ InputValues(d) = InputValues(d2) THEN "same"
              ELSE IF since.kind = "none" /\ op = "replace_cluster" /\ id # 0 THEN "locator"
              ELSE "other",
     id |-> IF since.kind = "none" THEN id ELSE 0,
     written |-> since.written \cup Written(d, d2)]

\* The built_cluster ids among the queries in executed.
ExecutedClusters(executed) == {k[2] : k \in {e \in executed : e[1] = "built_cluster"}}

Returned(op, ok, summary, executed) ==
    [op |-> op, ok |-> ok, summary |-> summary, executed |-> executed, since |-> since]

Init ==
    /\ db = new(StyleText(TRUE, StyleA), BundledFetcher, TRUE).db
    /\ last = [op |-> "new", ok |-> TRUE, summary |-> {}, executed |-> {}, since |-> NothingSince]
    /\ since = [kind |-> "other", id |-> 0, written |-> {}]
    /\ calls = 0
    /\ slot = NoSlot
    /\ par = NotComputing

\* An input setter: the database it leaves, and its record in since.  The
\* write waits until no snapshot is alive.
Set(op, id, d2, ok) ==
    /\ calls < MaxCalls
    /\ ~db.panicked
    /\ Writable(par)
    /\ db' = d2
    /\ last' = Returned(op, ok, {}, {})
    /\ since' = Setter(op, id, db, d2)
    /\ calls' = calls + 1
    /\ UNCHANGED <<slot, par>>

SetReferences == \E refs \in RefLists : Set("set_references", 0, set_references(db, refs), TRUE)

InsertReference == \E r \in InsertedRefs : Set("insert_reference", 0, insert_reference(db, r), TRUE)

InitClusters == \E cs \in ClusterLists : Set("init_clusters", 0, init_clusters(db, cs), TRUE)

InsertCluster ==
    \E c \in InsertedClusters, before \in {None} \cup {Some(k) : k \in ClusterIds} :
        Set("insert_cluster", 0, insert_cluster(db, c, before), TRUE)

ReplaceCluster ==
    \E c \in ClusterValues :
        Set("replace_cluster", IF LocatorEdit(db, c) THEN c.id ELSE 0, replace_cluster(db, c), TRUE)

RemoveCluster == \E k \in ClusterIds : Set("remove_cluster", 0, remove_cluster(db, k), TRUE)

RenumberClusters ==
    \E m \in Mappings : Set("renumber_clusters", 0, renumber_clusters(db, m), TRUE)

StoreLocales == \E ls \in LocaleLists : Set("store_locales", 0, store_locales(db, ls), TRUE)

SetStyleText ==
    \E text \in StyleTexts :
        LET With(r) == Set("set_style_text", 0, r.db, r.ok)
        IN  With(set_style_text(db, text))

\* A call that evaluates queries and leaves the inputs alone.
Query(op, r) ==
    /\ calls < MaxCalls
    /\ ~db.panicked
    /\ db' = r.db
    /\ last' = Returned(op, TRUE, r.summary, r.executed)
    /\ calls' = calls + 1
    /\ UNCHANGED <<slot, par>>

\* What compute() and get_cluster() leave, as a call's result.
Left(d) == Evaluated(d, {}, d.will_execute)

Compute ==
    /\ Query("compute", Left(compute(db)))
    /\ UNCHANGED since

GetCluster ==
    \E k \in ClusterIds :
        /\ Query("get_cluster", Left(get_cluster(db, k).db))
        /\ UNCHANGED since

BatchedUpdates ==
    /\ Query("batched_updates", batched_updates(db))
    /\ since' = IF db.save_updates THEN NothingSince ELSE since

Drain ==
    /\ Query("drain", drain(db))
    /\ since' = NothingSince

Next ==
    \/ SetReferences
    \/ InsertReference
    \/ InitClusters
    \/ InsertCluster
    \/ ReplaceCluster
    \/ RemoveCluster
    \/ RenumberClusters
    \/ StoreLocales
    \/ SetStyleText
    \/ Compute
    \/ GetCluster
    \/ BatchedUpdates
    \/ Drain

Spec == Init /\ [][Next]_vars

(***************************************************************************)
(* Properties of the processor without the rayon feature (Spec).           *)
(***************************************************************************)
\* cluster_ids as last written.
IdsOf(d) == Unwrap(d.inputs[K0("cluster_ids")]).value

\* A freshly constructed processor holding the inputs of d and no memo.
Fresh(d) ==
    [EmptyDb(d.fetcher) EXCEPT !.inputs = d.inputs,
                               !.revision = d.revision,
                               !.save_updates = d.save_updates]

\* The memo of built_cluster(id), if any.
Stored(d, id) == d.memos[K("built_cluster", id, "")]

\* Whether the last call ran compute().
Computed ==
    \/ last.op \in {"compute", "drain"}
    \/ last.op = "batched_updates" /\ db.save_updates

\* C1: after any sequence of input mutations followed by compute(), the
\* output held for built_cluster(id), for every id of cluster_ids, is up to
\* date and equals the output a freshly constructed processor with the same
\* inputs produces.
IncrementalCorrectness ==
    Computed =>
        \A i \in 1..Len(IdsOf(db)) :
            /\ IsSome(Stored(db, IdsOf(db)[i]))
            /\ Unwrap(Stored(db, IdsOf(db)[i])).verified_at = db.revision
            /\ Unwrap(Stored(db, IdsOf(db)[i])).value
                   = get_cluster(Fresh(db), IdsOf(db)[i]).value

\* A compute() after an edit that executed built_cluster(1) again and kept the
\* memo of built_cluster(2).
IncrementalCompute ==
    /\ last.op = "compute"
    /\ last.since.kind = "locator"
    /\ IdsOf(db) = <<1, 2>>
    /\ K("built_cluster", 1, "") \in last.executed
    /\ K("built_cluster", 2, "") \notin last.executed

\* The clusters of cluster_ids whose built_cluster read, as one of its own
\* dependencies, an input of written.
ReadersOf(d, written) ==
    {IdsOf(d)[i] : i \in {j \in 1..Len(IdsOf(d)) :
        /\ IsSome(Stored(d, IdsOf(d)[j]))
        /\ \E n \in 1..Len(Unwrap(Stored(d, IdsOf(d)[j])).deps) :
               Unwrap(Stored(d, IdsOf(d)[j])).deps[n] \in written}}

\* Whether the last call is a batched_updates() that followed, after the
\* queue was cleared, only setters that rewrote inputs to equal values.
AfterEqualRewrite == last.op = "batched_updates" /\ last.since.kind = "same"

ChangeTracking ==
    (last.op = "batched_updates" /\ db.save_updates) =>
        /\ last.summary = ExecutedClusters(last.executed)
        /\ db.queue = <<>>

\* A batched_updates() after executions of built_cluster for one cluster of
\* two and of other queries.
OneClusterTracked ==
    /\ last.op = "batched_updates"
    /\ IdsOf(db) = <<1, 2>>
    /\ Cardinality(last.summary) = 1
    /\ \E k \in last.executed : k[1] # "built_cluster"

\* C4: after all clusters were computed and the queue cleared, replacing one
\* cluster so that one cite's locator differs makes the next batched_updates()
\* return exactly the id of that cluster.
MinimalUpdate ==
    (last.op = "batched_updates" /\ last.since.kind = "locator") =>
        last.summary = {last.since.id}

\* A locator edit of cluster 1 in a document of two clusters, reported.
LocatorEditReported ==
    /\ last.op = "batched_updates"
    /\ last.since.kind = "locator"
    /\ last.since.id = 1
    /\ IdsOf(db) = <<1, 2>>
    /\ K("cite_positions", 0, "") \in last.executed

(***************************************************************************)
(* The locales of a processor (SpecLocale): a processor is built with some *)
(* style and fetcher, by the wrapper or not; locales are stored and merged *)
(* locales are asked for.                                                  *)
(***************************************************************************)
MaxLocaleCalls == 3

OptionsOf(lang) == [f \in LocaleFields |-> IF f = "options" THEN Some(lang) ELSE None]
BothOf(lang) == [f \in LocaleFields |-> Some(lang)]

\* What a fetcher may answer for a lang.
FetchResults(l) ==
    {FetchSome(LocaleXml(TRUE, TermsOf(l))), FetchSome(GarbageXml), FetchNone, FetchErr}
Fetchers ==
    {[l \in Langs |-> IF l = "en-US" THEN a ELSE IF l = "fr-FR" THEN b ELSE c] :
        a \in FetchResults("en-US"), b \in FetchResults("fr-FR"), c \in FetchResults("fr-CA")}

\* Styles with no inline locale, with one for every lang, with one for fr-CA.
LocaleStyles ==
    {StyleRec("L", en_us, NoOverrides, FALSE),
     StyleRec("L", en_us, [NoOverrides EXCEPT ![NoLang] = Some(OptionsOf("style"))], FALSE),
     StyleRec("L", en_us, [NoOverrides EXCEPT !["fr-CA"] = Some(TermsOf("style"))], FALSE)}

StoredLocaleLists ==
    {<<<<"fr-FR", LocaleXml(TRUE, OptionsOf("fr-FR"))>>>>,
     <<<<"fr-FR", GarbageXml>>>>,
     <<<<"fr-CA", LocaleXml(TRUE, BothOf("fr-CA"))>>, <<"en-US", GarbageXml>>>>}

\* What the callback may write to the slot of a lang.
SlotXmls(l) == {LocaleXml(TRUE, OptionsOf(l)), GarbageXml}

\* The langs stored, as last written.
LangsOf(d) == Unwrap(d.inputs[K0("locale_input_langs")]).value

\* What a call on the locales gave back.
LocaleCall(op, ok, lang, locales, value) ==
    [op |-> op, ok |-> ok, lang |-> lang, locales |-> locales, value |-> value,
     cached |-> LangsOf(db), caught |-> TRUE]

\* The wrapper builds its processors with the bundled en-US fetcher.
InitLocale ==
    /\ \E st \in LocaleStyles, f \in Fetchers, open \in BOOLEAN :
          /\ open => f = BundledFetcher
          /\ db = new(StyleText(TRUE, st), f, TRUE).db
          /\ slot = [open |-> open, locales |-> <<>>]
    /\ last = [op |-> "new", ok |-> TRUE, lang |-> NoLang, locales |-> <<>>,
               value |-> None, cached |-> {}, caught |-> TRUE]
    /\ since = NothingSince
    /\ calls = 0
    /\ par = NotComputing

\* A panic of the slot write that nothing caught ends the process.
Aborted == last.op = "write_locale_slot" /\ ~last.ok /\ ~last.caught

LocaleStep ==
    /\ calls < MaxLocaleCalls
    /\ ~db.panicked
    /\ ~Aborted
    /\ calls' = calls + 1
    /\ UNCHANGED <<since, par>>

\* The callback writes a locale to the slot it was given; en-US is not
\* asked for.  Whether a panic crosses the callback is the embedder's build.
WriteLocaleSlot ==
    /\ LocaleStep
    /\ slot.open
    /\ \E l \in Langs \ {en_us} : \E xml \in SlotXmls(l) : \E caught \in BOOLEAN :
          LET With(r) ==
                  /\ slot' = [slot EXCEPT !.locales = r.locales]
                  /\ last' = [LocaleCall("write_locale_slot", r.ok, l, <<<<l, xml>>>>, None)
                                 EXCEPT !.caught = caught \/ r.ok]
          IN  With(write_locale_slot(slot.locales, l, xml))
    /\ UNCHANGED db

\* citeproc_rs_processor_new stores what the callback wrote.
StoreSlot ==
    /\ LocaleStep
    /\ slot.open
    /\ db' = store_locales(db, slot.locales)
    /\ last' = LocaleCall("store_locales", TRUE, NoLang, slot.locales, None)
    /\ slot' = NoSlot

StoreLocalesGiven ==
    /\ LocaleStep
    /\ ~slot.open
    /\ \E ls \in StoredLocaleLists :
          /\ db' = store_locales(db, ls)
          /\ last' = LocaleCall("store_locales", TRUE, NoLang, ls, None)
    /\ UNCHANGED slot

MergedLocale ==
    /\ LocaleStep
    /\ ~slot.open
    /\ \E l \in Langs :
          LET With(r) ==
                  /\ db' = r.db
                  /\ last' = LocaleCall("merged_locale", ~r.db.panicked, l, <<>>, r.value)
          IN  With(Fetch(db, K("merged_locale", 0, l)))
    /\ UNCHANGED slot

HasCachedLocale ==
    /\ LocaleStep
    /\ ~slot.open
    /\ \E l \in Langs :
          last' = LocaleCall("has_cached_locale", TRUE, l, <<>>, has_cached_locale(db, l))
    /\ UNCHANGED <<db, slot>>

NextLocale ==
    \/ WriteLocaleSlot
    \/ StoreSlot
    \/ StoreLocalesGiven
    \/ MergedLocale
    \/ HasCachedLocale

SpecLocale == InitLocale /\ [][NextLocale]_vars

(***************************************************************************)
(* Properties of the locales (SpecLocale).                                 *)
(***************************************************************************)
\* The XML there is for a lang: the stored one, else the fetcher's, if any.
XmlFor(d, lang) ==
    IF lang \in LangsOf(d) THEN Some(Unwrap(d.inputs[K("locale_input_xml", 0, lang)]).value)
    ELSE IF d.fetcher[lang].tag = "some" THEN Some(d.fetcher[lang].xml)
    ELSE None

\* The locale a source of the chain stands for, None when it is unavailable.
LocaleFor(d, src) ==
    IF src.file
    THEN IF IsSome(XmlFor(d, src.lang)) /\ Unwrap(XmlFor(d, src.lang)).wellformed
         THEN Some(Unwrap(XmlFor(d, src.lang)).body)
         ELSE None
    ELSE Unwrap(d.inputs[K0("style")]).value.locale_overrides[src.lang]

RECURSIVE AvailableFrom(_, _)
\* The locales of the available sources among srcs, in the order of srcs.
AvailableFrom(d, srcs) ==
    IF srcs = <<>> THEN <<>>
    ELSE IF IsSome(LocaleFor(d, Head(srcs)))
    THEN <<Unwrap(LocaleFor(d, Head(srcs)))>> \o AvailableFrom(d, Tail(srcs))
    ELSE AvailableFrom(d, Tail(srcs))

\* The available locales of the fallback chain of lang, the requested lang
\* first and the root fallback last.
Available(d, lang) == AvailableFrom(d, LangIter(lang))

RECURSIVE FirstSome(_, _)
\* Field f of the first of locales in which it is Some; None when there is none.
FirstSome(locales, f) ==
    IF locales = <<>> THEN None
    ELSE IF IsSome(Head(locales)[f]) THEN Head(locales)[f]
    ELSE FirstSome(Tail(locales), f)

\* C5: every field of merged_locale(lang) is the field of the first locale of
\* the fallback chain, scanned from the requested lang to the root fallback,
\* in which it is Some, and None only when it is None in all of them.
MergePrecedence ==
    last.op = "merged_locale" =>
        \A f \in LocaleFields : last.value[f] = FirstSome(Available(db, last.lang), f)

\* A merged locale of a chain whose first two available locales give one
\* field different values.
TwoLocalesDisagree ==
    /\ last.op = "merged_locale"
    /\ Len(Available(db, last.lang)) >= 2
    /\ \E f \in LocaleFields :
          /\ IsSome(Available(db, last.lang)[1][f])
          /\ IsSome(Available(db, last.lang)[2][f])
          /\ Available(db, last.lang)[1][f] # Available(db, last.lang)[2][f]

RECURSIVE Over(_)
\* The locales laid over one another, the first uppermost, Locale::default()
\* at the bottom.
Over(locales) ==
    IF locales = <<>> THEN LocaleDefault
    ELSE LocaleMerge(Over(Tail(locales)), Head(locales))

\* C6: merged_locale(lang) returns a locale and does not fail; it is the
\* merge of the available locales of the chain alone, Locale::default() when
\* none is available.
MergedLocaleTotal ==
    last.op = "merged_locale" =>
        /\ last.ok
        /\ last.value = Over(Available(db, last.lang))
        /\ Available(db, last.lang) = <<>> => last.value = LocaleDefault

\* A merged locale of fr-CA where the fetcher has no fr-CA, gives fr-FR XML
\* that does not parse and fails for en-US, no locale is stored and the
\* style has no inline locale: every source is skipped and the merged
\* locale is the default one.
UnavailableSkipped ==
    /\ last.op = "merged_locale"
    /\ last.lang = "fr-CA"
    /\ db.fetcher["fr-CA"].tag = "none"
    /\ db.fetcher["en-US"].tag = "err"
    /\ db.fetcher["fr-FR"] = FetchSome(GarbageXml)
    /\ LangsOf(db) = {}
    /\ Unwrap(db.inputs[K0("style")]).value.locale_overrides = NoOverrides
    /\ last.value = LocaleDefault

\* The entries of the last store_locales whose XML does not parse.
Unparseable == {i \in 1..Len(last.locales) : ~LocaleFromStr(last.locales[i][2]).ok}

\* C7 as stated: store_locales does not store an XML that does not parse, so
\* has_cached_locale(lang) does not become true for it.
UnparseableNotStored ==
    last.op = "store_locales" =>
        \A i \in Unparseable :
            has_cached_locale(db, last.locales[i][1]) = (last.locales[i][1] \in last.cached)

\* C7, amended: store_locales stores every XML as given, parsed or not, and
\* has_cached_locale is true of its lang afterwards; it is the slot write of
\* the wrapper that parses, and an XML that does not parse makes it panic and
\* push nothing, so that the storage the wrapper stores holds no such XML.
OnlySlotWriteParses ==
    /\ last.op = "store_locales" =>
           \A i \in 1..Len(last.locales) :
               /\ has_cached_locale(db, last.locales[i][1])
               /\ (\A j \in (i + 1)..Len(last.locales) :
                       last.locales[j][1] # last.locales[i][1])
                      => Unwrap(db.inputs[K("locale_input_xml", 0, last.locales[i][1])]).value
                             = last.locales[i][2]
    /\ last.op = "write_locale_slot" =>
           last.ok = LocaleFromStr(last.locales[1][2]).ok
    /\ \A i \in 1..Len(slot.locales) : LocaleFromStr(slot.locales[i][2]).ok

\* A store_locales of an XML that does not parse, for a lang not stored before.
UnparseableStored ==
    /\ last.op = "store_locales"
    /\ \E i \in Unparseable :
          /\ last.locales[i][1] \notin last.cached
          /\ has_cached_locale(db, last.locales[i][1])

(***************************************************************************)
(* The processor built with rayon (SpecPar): the calls of the input        *)
(* setters, and compute() as the steps of its threads.                     *)
(***************************************************************************)
\* compute() is called: it reads cluster_ids and all_cite_ids and enters the
\* loop over the cite ids.
StartCompute ==
    /\ calls < MaxCalls
    /\ ~db.panicked
    /\ par.phase = "idle"
    /\ LET With(r) ==
               /\ db' = r.db
               /\ par' = Loop([par EXCEPT !.mark = Len(db.queue)], r.db, "ir",
                              ClusterKeys("ir_gen2_add_given_name", r.value))
       IN  With(Fetch(db, K0("all_cite_ids")))
    /\ calls' = calls + 1
    /\ UNCHANGED <<last, since, slot>>

\* The loop without its i-th item, which worker w took with a clone of the
\* loop's snapshot: w evaluates the item's query d does not hold up to date.
Taken(p, w, i, d) ==
    [p EXCEPT !.todo = SubSeq(p.todo, 1, i - 1) \o SubSeq(p.todo, i + 1, Len(p.todo)),
              !.snaps[w] = p.snaps[0],
              !.stacks[w] = IF IsCurrent(d, p.todo[i]) THEN <<>>
                            ELSE <<Frame(d, p.todo[i])>>]

\* A worker with nothing to do takes an item of the loop, any of them.
Take(w) ==
    /\ par.phase \in {"ir", "clusters"}
    /\ ~db.panicked
    /\ par.stacks[w] = <<>>
    /\ \E i \in 1..Len(par.todo) :
          /\ CanClaim(par, w, par.todo[i])
          /\ db' = IF IsCurrent(db, par.todo[i]) THEN db ELSE Claimed(db, par.todo[i])
          /\ par' = Taken(par, w, i, db)
    /\ UNCHANGED <<last, since, calls, slot>>

\* A worker goes on with the query on top of its stack.
Step(w) ==
    /\ par.stacks[w] # <<>>
    /\ ~db.panicked
    /\ LET With(a) ==
               CASE a.kind = "need" ->
                        /\ CanClaim(par, w, a.key)
                        /\ db' = Claimed(db, a.key)
                        /\ par' = Pushed(par, w, Frame(db, a.key))
                 [] a.kind = "execute" -> db' = a.db /\ par' = Executing(par, w)
                 [] a.kind = "done" -> db' = a.db /\ par' = Popped(par, w)
                 [] a.kind = "panic" -> db' = a.db /\ par' = par
       IN  With(Advance(db, Top(par.stacks[w])))
    /\ UNCHANGED <<last, since, calls, slot>>

\* Whether every item of the loop is taken and evaluated.
LoopDone(p) == p.todo = <<>> /\ \A w \in Workers : p.stacks[w] = <<>>

\* The loop over the cite ids returns.
JoinIrs ==
    /\ par.phase = "ir"
    /\ LoopDone(par)
    /\ par' = [DropSnapshots(par) EXCEPT !.phase = "suffixes"]
    /\ UNCHANGED <<db, last, since, calls, slot>>

\* compute() calls year_suffixes and enters the loop over the cluster_ids it
\* read when it was called.
CallYearSuffixes ==
    /\ par.phase = "suffixes"
    /\ ~db.panicked
    /\ LET With(r) ==
               /\ db' = r.db
               /\ par' = Loop(par, r.db, "clusters",
                              ClusterKeys("built_cluster",
                                          ReadInput(db, K0("cluster_ids")).value))
       IN  With(Fetch(db, K0("year_suffixes")))
    /\ UNCHANGED <<last, since, calls, slot>>

\* The loop over the cluster ids returns, and compute() does.
JoinClusters ==
    /\ par.phase = "clusters"
    /\ LoopDone(par)
    /\ par' = [DropSnapshots(par) EXCEPT !.phase = "idle"]
    /\ last' = Returned("compute", TRUE, {}, {})
    /\ UNCHANGED <<db, since, calls, slot>>

NextPar ==
    \/ SetReferences
    \/ InitClusters
    \/ ReplaceCluster
    \/ InsertCluster
    \/ StartCompute
    \/ \E w \in Workers : Take(w)
    \/ \E w \in Workers : Step(w)
    \/ JoinIrs
    \/ CallYearSuffixes
    \/ JoinClusters

SpecPar == Init /\ [][NextPar]_vars

(***************************************************************************)
(* Properties of the processor built with rayon (SpecPar).                 *)
(***************************************************************************)
\* The DocUpdates pushed since compute() was last called.
Updates == SubSeq(db.queue, par.mark + 1, Len(db.queue))

NoDuplicates(seq) == \A i, j \in 1..Len(seq) : seq[i] = seq[j] => i = j

\* C8: within one revision every query executes at most once, whichever
\* worker threads of compute() evaluate it, and one compute() pushes at most
\* one DocUpdate::Cluster(id) for a cluster id.
AtMostOnce ==
    /\ \A k \in DerivedKeys : db.executed[k] <= 1
    /\ NoDuplicates(Updates)

\* A worker reads a query that another worker is executing, and waits.
WorkerWaits ==
    \E w \in Workers :
        /\ par.stacks[w] # <<>>
        /\ LET With(a) ==
                   /\ a.kind = "need"
                   /\ a.key \in InProgress(par, w)
                   /\ db.executed[a.key] = 1
           IN  With(Advance(db, Top(par.stacks[w])))

\* C9: a snapshot that is alive reads the revision the processor is at, so
\* no write took effect since it was made; and when compute() has returned
\* no snapshot is alive, so the next write goes ahead.
SnapshotIsolation ==
    /\ \A h \in Holders : IsSome(par.snaps[h]) => Unwrap(par.snaps[h]) = db.revision
    /\ par.phase = "idle" => Writable(par)

\* Both workers hold a snapshot in a compute() that follows a write that
\* followed a compute(): cluster 1 is memoised at an earlier revision.
SnapshotsAfterWrite ==
    /\ par.phase = "clusters"
    /\ \A w \in Workers : IsSome(par.snaps[w])
    /\ IsSome(Stored(db, 1))
    /\ Unwrap(Stored(db, 1)).verified_at < db.revision

\* C10: when compute() on parallel snapshots has returned, the output of
\* every cluster is the output a fresh processor with the same inputs
\* computes sequentially, whatever the order the workers took the clusters
\* in and whatever was memoised before.
Determinism ==
    (par.phase = "idle" /\ last.op = "compute") =>
        LET With(seq) ==
                \A i \in 1..Len(IdsOf(db)) :
                    /\ IsSome(Stored(db, IdsOf(db)[i]))
                    /\ Unwrap(Stored(db, IdsOf(db)[i])).value
                           = Unwrap(Stored(seq, IdsOf(db)[i])).value
        IN  With(compute(Fresh(db)))

\* compute() has returned and its workers executed cluster 2 before
\* cluster 1, which a sequential compute() executes first.
ReverseOrder ==
    /\ par.phase = "idle"
    /\ last.op = "compute"
    /\ IdsOf(db) = <<1, 2>>
    /\ Updates = <<2, 1>>

(***************************************************************************)
(* The specification of construction: one call of Processor::new or of     *)
(* citeproc_rs_processor_new, step by step, and the calls made on the      *)
(* processor it gave.  slot holds the call in progress:                    *)
(*   pc        "call" before the call, "build" in the loop of build(),     *)
(*             "callback" inside the embedder's callback, "done" with a    *)
(*             handle, "error" with a StyleError returned, "aborted" or    *)
(*             "unwound" after a panic                                     *)
(*   callback  whether a locale fetch callback was given                   *)
(*   langs     what get_langs_in_use() gave the wrapper                    *)
(*   to_fetch  the Vec build() walks, i its position                       *)
(*   invoked   the langs the callback was called with, in order            *)
(*   active    the callbacks that have not returned                        *)
(*   writes    the slot writes that pushed: <<number of the callback's     *)
(*             call, xml>>; attempts counts the slot writes made           *)
(*   sets      the set_references and insert_reference calls made          *)
(***************************************************************************)
MaxNewCalls == 3
MaxSlotWrites == 2

RefsWithLanguages ==
    {<<Reference("r1", "fr-FR", "t1")>>,
     <<Reference("r1", "en-US", "t1"), Reference("r2", NoLang, "t2")>>,
     <<Reference("r1", NoLang, "t1"), Reference("r2", "fr-CA", "t2")>>}
InsertedWithLanguages == {Reference("r2", "fr-FR", "t2"), Reference("r1", NoLang, "t1")}

\* What the callback may write to the slot of a lang.
CallbackXmls(l) == {LocaleXml(TRUE, OptionsOf(l)), LocaleXml(TRUE, TermsOf(l)), GarbageXml}

\* The orders a HashSet may hand its elements out in.
Orders(S) ==
    {order \in [1..Cardinality(S) -> S] :
        \A i, j \in 1..Cardinality(S) : order[i] = order[j] => i = j}

NewCall(via, style_string, callback) ==
    [open |-> FALSE, locales |-> <<>>, pc |-> "call", via |-> via,
     style_string |-> style_string, callback |-> callback, langs |-> {},
     to_fetch |-> <<>>, i |-> 1, invoked |-> <<>>, active |-> 0, writes |-> <<>>,
     attempts |-> 0, handle |-> FALSE, sets |-> 0]

InitNew ==
    /\ \E via \in {"ffi", "rust"}, text \in StyleTexts, callback \in BOOLEAN :
          /\ via = "rust" => ~callback
          /\ slot = NewCall(via, text, callback)
    /\ db = EmptyDb(BundledFetcher)
    /\ last = [op |-> "none", value |-> {}]
    /\ since = NothingSince
    /\ calls = 0
    /\ par = NotComputing

\* Processor::new called from Rust: the processor, or the StyleError.
RustNew ==
    /\ slot.pc = "call"
    /\ slot.via = "rust"
    /\ LET With(r) ==
               /\ db' = IF r.ok THEN r.db ELSE db
               /\ slot' = [slot EXCEPT !.pc = IF r.ok THEN "done" ELSE "error",
                                       !.handle = r.ok]
       IN  With(new(slot.style_string, BundledFetcher, FALSE))
    /\ UNCHANGED <<last, since, calls, par>>

\* citeproc_rs_processor_new up to the call of build(): a StyleError
\* panics, and the panic either ends the process or unwinds out of the
\* function's body; with no lang or no callback the handle is returned.
ProcessorNew ==
    /\ slot.pc = "call"
    /\ slot.via = "ffi"
    /\ LET WithLangs(langs) ==
               /\ db' = langs.db
               /\ IF Fetching(langs.value, slot.callback)
                  THEN \E order \in Orders(langs.value) :
                          slot' = [slot EXCEPT !.pc = "build", !.open = TRUE,
                                               !.langs = langs.value, !.to_fetch = order]
                  ELSE slot' = [slot EXCEPT !.pc = "done", !.handle = TRUE,
                                            !.langs = langs.value]
           With(r) ==
               IF r.ok THEN WithLangs(get_langs_in_use(r.db))
               ELSE /\ \E how \in {"aborted", "unwound"} : slot' = [slot EXCEPT !.pc = how]
                    /\ UNCHANGED db
       IN  With(new(slot.style_string, BundledFetcher, FALSE))
    /\ UNCHANGED <<last, since, calls, par>>

\* One turn of build()'s loop up to the callback: en-US is passed over,
\* any other lang gets a slot and the callback is called with it.
BuildNext ==
    /\ slot.pc = "build"
    /\ slot.i <= Len(slot.to_fetch)
    /\ slot' = IF Invoked(slot.callback, slot.to_fetch[slot.i])
               THEN [slot EXCEPT !.pc = "callback",
                                 !.invoked = Append(@, slot.to_fetch[slot.i]),
                                 !.active = @ + 1]
               ELSE [slot EXCEPT !.i = @ + 1]
    /\ UNCHANGED <<db, last, since, calls, par>>

\* Inside the callback the embedder writes to the slot it was given.  A
\* parse error panics: the embedder's build either ends the process there
\* or lets the callback go on with nothing pushed.
CallbackWrites ==
    /\ slot.pc = "callback"
    /\ slot.attempts < MaxSlotWrites
    /\ \E xml \in CallbackXmls(slot.to_fetch[slot.i]), caught \in BOOLEAN :
          LET With(r) ==
                  slot' = IF r.ok
                          THEN [slot EXCEPT !.locales = r.locales,
                                            !.writes = Append(@, <<Len(slot.invoked), xml>>),
                                            !.attempts = @ + 1]
                          ELSE IF caught THEN [slot EXCEPT !.attempts = @ + 1]
                          ELSE [slot EXCEPT !.pc = "aborted"]
          IN  With(write_locale_slot(slot.locales, slot.to_fetch[slot.i], xml))
    /\ UNCHANGED <<db, last, since, calls, par>>

\* The callback returns and the loop goes on to the next lang.
CallbackReturns ==
    /\ slot.pc = "callback"
    /\ slot' = [slot EXCEPT !.pc = "build", !.i = @ + 1, !.active = @ - 1]
    /\ UNCHANGED <<db, last, since, calls, par>>

\* build() returns its storage; the wrapper stores the locales and returns
\* the handle.
BuildReturns ==
    /\ slot.pc = "build"
    /\ slot.i > Len(slot.to_fetch)
    /\ db' = store_locales(db, slot.locales)
    /\ slot' = [slot EXCEPT !.pc = "done", !.open = FALSE, !.handle = TRUE]
    /\ UNCHANGED <<last, since, calls, par>>

\* A call on the processor that construction gave.
NewStep ==
    /\ slot.pc = "done"
    /\ calls < MaxNewCalls
    /\ calls' = calls + 1
    /\ UNCHANGED <<since, par>>

SetReferencesNew ==
    /\ NewStep
    /\ \E refs \in RefsWithLanguages : db' = set_references(db, refs)
    /\ slot' = [slot EXCEPT !.sets = @ + 1]
    /\ last' = [op |-> "set_references", value |-> {}]

InsertReferenceNew ==
    /\ NewStep
    /\ \E refr \in InsertedWithLanguages : db' = insert_reference(db, refr)
    /\ slot' = [slot EXCEPT !.sets = @ + 1]
    /\ last' = [op |-> "insert_reference", value |-> {}]

GetLangsInUse ==
    /\ NewStep
    /\ LET With(r) ==
               /\ db' = r.db
               /\ last' = [op |-> "get_langs_in_use", value |-> r.value]
       IN  With(get_langs_in_use(db))
    /\ UNCHANGED slot

NextNew ==
    \/ RustNew
    \/ ProcessorNew
    \/ BuildNext
    \/ CallbackWrites
    \/ CallbackReturns
    \/ BuildReturns
    \/ SetReferencesNew
    \/ InsertReferenceNew
    \/ GetLangsInUse

SpecNew == InitNew /\ [][NextNew]_vars

(***************************************************************************)
(* Properties of SpecNew.                                                  *)
(***************************************************************************)
\* The wrapper returned a handle.
Built == slot.via = "ffi" /\ slot.pc = "done"

\* The langs the callback wrote a locale under, and the XML it wrote last
\* during the call for lang l.
WrittenLangs == {slot.invoked[slot.writes[k][1]] : k \in 1..Len(slot.writes)}
WritesFor(l) == SelectSeq(slot.writes, LAMBDA w : slot.invoked[w[1]] = l)

\* The locale inputs that hold an XML.
StoredXmls(d) == {l \in Langs : IsSome(d.inputs[K("locale_input_xml", 0, l)])}

\* C11: during citeproc_rs_processor_new the callback is called, one call
\* at a time, exactly once for each lang of get_langs_in_use() other than
\* en-US and never for en-US; what it wrote during the call for a lang is
\* stored under that lang and makes has_cached_locale(lang) hold; without a
\* callback no locale is stored.
FetchProtocol ==
    /\ slot.active <= 1
    /\ slot.pc \in {"build", "done"} => slot.active = 0
    /\ ~Contains(slot.invoked, en_us)
    /\ NoDuplicates(slot.invoked)
    /\ \A k \in 1..Len(slot.invoked) : slot.invoked[k] \in slot.langs
    /\ Built =>
          /\ slot.langs = {Unwrap(db.inputs[K0("style")]).value.default_locale}
          /\ slot.callback =>
                {slot.invoked[k] : k \in 1..Len(slot.invoked)} = slot.langs \ {en_us}
          /\ ~slot.callback => slot.invoked = <<>> /\ slot.writes = <<>>
          /\ \A l \in Langs : has_cached_locale(db, l) <=> l \in WrittenLangs
          /\ StoredXmls(db) = WrittenLangs
          /\ \A l \in WrittenLangs :
                Unwrap(db.inputs[K("locale_input_xml", 0, l)]).value
                    = WritesFor(l)[Len(WritesFor(l))][2]

\* The wrapper returned a handle after its callback wrote two locales
\* during the call for fr-FR.
TwoLocalesFetched ==
    /\ Built
    /\ slot.invoked = <<"fr-FR">>
    /\ Len(slot.writes) = 2
    /\ slot.writes[1][2] # slot.writes[2][2]

\* The languages of the references registered and the style's default
\* locale, as the inputs hold them.
LanguagesHeld(d) ==
    {Unwrap(d.inputs[K("reference_input", 0, id)]).value.language :
        id \in Unwrap(d.inputs[K0("all_keys")]).value}
        \ {NoLang}
DefaultLocaleHeld(d) == Unwrap(d.inputs[K0("style")]).value.default_locale

\* C12, as stated: the result of get_langs_in_use() never contains en-US.
LangsInUseWithoutEnUs ==
    last.op = "get_langs_in_use" => en_us \notin last.value

\* C12: get_langs_in_use() returns the languages of the references
\* registered and the style's default locale, en-US among them whenever it
\* is the default locale or the language of a reference.
LangsInUse ==
    last.op = "get_langs_in_use" =>
        /\ last.value = LanguagesHeld(db) \cup {DefaultLocaleHeld(db)}
        /\ en_us \in last.value
              <=> (DefaultLocaleHeld(db) = en_us \/ en_us \in LanguagesHeld(db))

\* get_langs_in_use() gave en-US for a reference in en-US under a style
\* whose default locale is fr-FR.
EnUsInUse ==
    /\ last.op = "get_langs_in_use"
    /\ DefaultLocaleHeld(db) = "fr-FR"
    /\ last.value = {"fr-FR", en_us}

StyleErrorReturned ==
    (~StyleFromStr(slot.style_string).ok /\ slot.pc # "call") =>
        slot.pc = "error" /\ ~slot.handle

(***************************************************************************)
(* The cite context (citeproc/src/proc/cite_context.rs): the variables of  *)
(* a reference and of the cite that refers to it.                          *)
(***************************************************************************)
\* NumericValue: a number, a range, an affixed number such as "2A" or a
\* literal string.  first is what page_first finds in an affixed number:
\* an integer, or nothing.
NumericNumber(n) == [tag |-> "number", n |-> n, m |-> 0, s |-> "", first |-> None]
NumericRange(a, b) == [tag |-> "range", n |-> a, m |-> b, s |-> "", first |-> None]
NumericAffixed(s, first) == [tag |-> "affixed", n |-> 0, m |-> 0, s |-> s, first |-> first]
NumericLiteral(s) == [tag |-> "literal", n |-> 0, m |-> 0, s |-> s, first |-> None]

\* NumericValue::is_numeric: true of all but the literal string.
NumericIsNumeric(v) == v.tag \in {"number", "range", "affixed"}

\* NumericValue::page_first: the first integer of a page or page range.
page_first(pp) ==
    IF pp.tag \in {"number", "range"} THEN Some(NumericNumber(pp.n))
    ELSE IF pp.tag = "affixed" /\ IsSome(pp.first) THEN Some(NumericNumber(Unwrap(pp.first)))
    ELSE None

\* AnyVariable: a variable in one of the four namespaces.
Ordinary(v) == [ns |-> "ordinary", v |-> v]
Number(v) == [ns |-> "number", v |-> v]
Name(v) == [ns |-> "name", v |-> v]
Date(v) == [ns |-> "date", v |-> v]

OrdinaryVariables == {"title"}
NumberVariables == {"locator", "page", "page-first", "volume"}
NameVariables == {"author", "dummy"}
DateVariables == {"issued"}
AnyVariables ==
    {Ordinary(v) : v \in OrdinaryVariables} \cup {Number(v) : v \in NumberVariables}
        \cup {Name(v) : v \in NameVariables} \cup {Date(v) : v \in DateVariables}

\* The four maps of a Reference: None for a key the map does not hold.
ReferenceMaps(ordinary, number, name, date) ==
    [ordinary |-> ordinary, number |-> number, name |-> name, date |-> date]

CiteContext(refr, locator) == [reference |-> refr, cite |-> [locator |-> locator]]

\* Reference::has_variable: contains_key of the map of the namespace.
ReferenceHasVariable(refr, var) ==
    IF var.ns = "ordinary" THEN IsSome(refr.ordinary[var.v])
    ELSE IF var.ns = "number" THEN IsSome(refr.number[var.v])
    ELSE IF var.ns = "name" THEN IsSome(refr.name[var.v])
    ELSE IsSome(refr.date[var.v])

\* A variant of get_number that reads every variable from the reference.
get_number_of_reference(ctx, var) == ctx.reference.number[var]

get_number(ctx, var) ==
    IF var = "locator" THEN ctx.cite.locator
    ELSE IF var = "page-first"
    THEN IF IsSome(ctx.reference.number["page"])
         THEN page_first(Unwrap(ctx.reference.number["page"]))
         ELSE None
    ELSE ctx.reference.number[var]

is_numeric(ctx, var) ==
    IF var.ns = "number"
    THEN LET With(r) == IF IsSome(r) THEN NumericIsNumeric(Unwrap(r)) ELSE FALSE
         IN  With(get_number(ctx, var.v))
    ELSE FALSE

has_variable(ctx, var) ==
    IF var = Name("dummy") THEN FALSE
    ELSE IF var = Number("locator") THEN IsSome(ctx.cite.locator)
    ELSE IF var = Number("page-first") THEN is_numeric(ctx, var)
    ELSE ReferenceHasVariable(ctx.reference, var)

(***************************************************************************)
(* The specification of the cite context: a reference and a cite, and the  *)
(* questions the evaluator asks about their variables.  slot.ctx is the    *)
(* cite context, last the last question and its answer.                    *)
(***************************************************************************)
MaxCiteCalls == 2

Pages ==
    {None, Some(NumericNumber(32)), Some(NumericRange(32, 40)),
     Some(NumericAffixed("2A", None)), Some(NumericAffixed("2A", Some(2))),
     Some(NumericLiteral("foreword"))}
Volumes == {None, Some(NumericNumber(3)), Some(NumericLiteral("III"))}
CiteLocators == {None, Some(NumericNumber(7)), Some(NumericLiteral("passim"))}

\* The references a cite may refer to: none holds locator, page-first or
\* dummy, which belong to the cite and to the evaluator.
CiteReferences ==
    {ReferenceMaps([v \in OrdinaryVariables |-> title],
                   [v \in NumberVariables |->
                       IF v = "page" THEN page ELSE IF v = "volume" THEN volume ELSE None],
                   [v \in NameVariables |-> IF v = "author" THEN author ELSE None],
                   [v \in DateVariables |-> None]) :
        title \in {None, Some("t1")}, page \in Pages, volume \in Volumes,
        author \in {None, Some("a1")}}

InitCite ==
    /\ \E refr \in CiteReferences, locator \in CiteLocators :
          slot = [open |-> FALSE, locales |-> <<>>, ctx |-> CiteContext(refr, locator)]
    /\ db = EmptyDb(BundledFetcher)
    /\ last = [op |-> "none", var |-> Name("dummy"), value |-> FALSE]
    /\ since = NothingSince
    /\ calls = 0
    /\ par = NotComputing

CiteStep ==
    /\ calls < MaxCiteCalls
    /\ calls' = calls + 1
    /\ UNCHANGED <<db, since, slot, par>>

HasVariable ==
    /\ CiteStep
    /\ \E var \in AnyVariables :
          last' = [op |-> "has_variable", var |-> var, value |-> has_variable(slot.ctx, var)]

IsNumeric ==
    /\ CiteStep
    /\ \E var \in AnyVariables :
          last' = [op |-> "is_numeric", var |-> var, value |-> is_numeric(slot.ctx, var)]

GetNumber ==
    /\ CiteStep
    /\ \E v \in NumberVariables :
          last' = [op |-> "get_number", var |-> Number(v), value |-> get_number(slot.ctx, v)]

NextCite == HasVariable \/ IsNumeric \/ GetNumber

SpecCite == InitCite /\ [][NextCite]_vars

(***************************************************************************)
(* Properties of SpecCite.                                                 *)
(***************************************************************************)
\* The reference's page, and how it is classified.
PageOf == slot.ctx.reference.number["page"]
PageIs(tags) == IsSome(PageOf) /\ Unwrap(PageOf).tag \in tags

\* Whether a number variable is absent: the locator from the cite, page-first
\* with the page, any other from the reference.
AbsentNumber(v) ==
    IF v = "locator" THEN ~IsSome(slot.ctx.cite.locator)
    ELSE IF v = "page-first" THEN ~IsSome(PageOf)
    ELSE ~IsSome(slot.ctx.reference.number[v])

\* C16: is_numeric(page-first) is true when the page is a number or a page
\* range, whose first integer get_number extracts, and false when the page
\* is a literal string or absent; is_numeric is false for every variable
\* outside the Number namespace and for every absent number variable.
IsNumericPageFirst ==
    /\ (last.op = "is_numeric" /\ last.var = Number("page-first")) =>
          /\ PageIs({"number", "range"}) => last.value = TRUE
          /\ (PageIs({"literal"}) \/ ~IsSome(PageOf)) => last.value = FALSE
    /\ (last.op = "get_number" /\ last.var = Number("page-first")
            /\ PageIs({"number", "range"})) =>
          last.value = Some(NumericNumber(Unwrap(PageOf).n))
    /\ (last.op = "is_numeric" /\ last.var.ns # "number") => last.value = FALSE
    /\ (last.op = "is_numeric" /\ last.var.ns = "number" /\ AbsentNumber(last.var.v)) =>
          last.value = FALSE

\* is_numeric(page-first) of a reference whose page is the range 32-40.
PageRangeIsNumeric ==
    /\ last.op = "is_numeric"
    /\ last.var = Number("page-first")
    /\ PageOf = Some(NumericRange(32, 40))
    /\ last.value = TRUE

\* has_variable(page-first) is true exactly when the page is there and
\* numeric, whatever the page is: a number, a range, an affixed number, a
\* literal or absent.
PageFirstPresent ==
    (last.op = "has_variable" /\ last.var = Number("page-first")) =>
        (last.value <=> (IsSome(PageOf) /\ NumericIsNumeric(Unwrap(PageOf))))

(***************************************************************************)
(* The specification of the name options: a processor whose style sets     *)
(* name options on <style> and on <citation>, and the name_citation query. *)
(***************************************************************************)
MaxNameCalls == 2

NameOptions ==
    {[f \in NameFields |->
         IF f = "and" THEN and ELSE IF f = "form" THEN form
         ELSE IF f = "et_al_min" THEN min ELSE init] :
        and \in {None, Some("text"), Some("symbol")}, form \in {None, Some("short")},
        min \in {None, Some(3)}, init \in {None, Some(FALSE)}}

StyleWithNames(root, citation) ==
    [StyleA EXCEPT !.name_inheritance = root, !.citation.name_inheritance = citation]

\* The styles set_style_text is called with.
RestyledNames ==
    {StyleWithNames([NameUnset EXCEPT !["and"] = Some("text")], NameUnset),
     StyleWithNames([NameUnset EXCEPT !["and"] = Some("text"), !["form"] = Some("short")],
                    [NameUnset EXCEPT !["and"] = Some("symbol")])}

InitName ==
    /\ \E root \in NameOptions, citation \in NameOptions :
          db = new(StyleText(TRUE, StyleWithNames(root, citation)), BundledFetcher, FALSE).db
    /\ slot = NoSlot
    /\ last = [op |-> "new", value |-> NameUnset]
    /\ since = NothingSince
    /\ calls = 0
    /\ par = NotComputing

NameStep ==
    /\ calls < MaxNameCalls
    /\ calls' = calls + 1
    /\ UNCHANGED <<since, slot, par>>

NameCitation ==
    /\ NameStep
    /\ last' = [op |-> "name_citation", value |-> name_citation(db)]
    /\ UNCHANGED db

SetStyleNames ==
    /\ NameStep
    /\ \E st \in RestyledNames :
          db' = set_style_text(db, StyleText(TRUE, st)).db
    /\ last' = [op |-> "set_style_text", value |-> NameUnset]

NextName == NameCitation \/ SetStyleNames

SpecName == InitName /\ [][NextName]_vars

(***************************************************************************)
(* Properties of SpecName.                                                 *)
(***************************************************************************)
\* The style the processor holds.
StyleHeld == Unwrap(db.inputs[K0("style")]).value

\* C17: every attribute of name_citation is the citation's value when the
\* citation sets it, else the style's when the style sets it, else the
\* root default, which an attribute set at no level keeps.
NameCitationMerge ==
    last.op = "name_citation" =>
        \A f \in NameFields :
            last.value[f] =
                IF IsSome(StyleHeld.citation.name_inheritance[f])
                THEN StyleHeld.citation.name_inheritance[f]
                ELSE IF IsSome(StyleHeld.name_inheritance[f])
                THEN StyleHeld.name_inheritance[f]
                ELSE NameRootDefault[f]

\* name_citation of a style where style and citation disagree on "and",
\* only the style sets the form and nothing sets initialize or et-al-min.
ThreeLevelsOfNames ==
    /\ last.op = "name_citation"
    /\ StyleHeld.name_inheritance
           = [NameUnset EXCEPT !["and"] = Some("text"), !["form"] = Some("short")]
    /\ StyleHeld.citation.name_inheritance = [NameUnset EXCEPT !["and"] = Some("symbol")]
    /\ last.value = [NameRootDefault EXCEPT !["and"] = Some("symbol"), !["form"] = Some("short")]

(***************************************************************************)
(* Names (citeproc/src/input/names.rs) and their JSON.  A JSON object is a *)
(* function from its keys to values; a key it does not hold is absent.     *)
(***************************************************************************)
JsonAbsent == [t |-> "absent", s |-> ""]
JsonNull == [t |-> "null", s |-> ""]
JsonString(s) == [t |-> "string", s |-> s]

\* PersonName: every part is an Option<String>.
PersonFields == {"family", "given", "non_dropping_particle", "dropping_particle", "suffix"}
PersonName(family, given, non_dropping_particle, dropping_particle, suffix) ==
    [f \in PersonFields |->
        IF f = "family" THEN family ELSE IF f = "given" THEN given
        ELSE IF f = "non_dropping_particle" THEN non_dropping_particle
        ELSE IF f = "dropping_particle" THEN dropping_particle ELSE suffix]
NoPerson == [f \in PersonFields |-> None]

\* enum Name: Literal { literal } or Person(PersonName).
Literal(literal) == [variant |-> "Literal", literal |-> literal, person |-> NoPerson]
Person(parts) == [variant |-> "Person", literal |-> "", person |-> parts]

\* rename_all = "kebab-case": the key a field is written and read under.
KebabCase(f) ==
    IF f = "non_dropping_particle" THEN "non-dropping-particle"
    ELSE IF f = "dropping_particle" THEN "dropping-particle"
    ELSE f

\* The keys a name object may hold; a key no field is read under is passed
\* over by the derived Deserialize.
JsonKeys == {"literal"} \cup {KebabCase(f) : f \in PersonFields} \cup {"non_dropping_particle"}

Ok(v) == [ok |-> TRUE, value |-> v]
Err == [ok |-> FALSE, value |-> Literal("")]

\* String: a JSON string and nothing else.
DeserializeString(v) == IF v.t = "string" THEN Ok(v.s) ELSE [ok |-> FALSE, value |-> ""]

\* Option<String>: None for a missing key and for null.
DeserializeOption(v) == IF v.t = "string" THEN Ok(Some(v.s)) ELSE Ok(None)

\* The variant Literal { literal: String }: the key literal must be there.
DeserializeLiteral(obj) ==
    IF DeserializeString(obj["literal"]).ok
    THEN Ok(Literal(DeserializeString(obj["literal"]).value))
    ELSE Err

\* The variant Person(PersonName): every part read under its kebab-case
\* key.
DeserializePerson(obj) ==
    IF \A f \in PersonFields : DeserializeOption(obj[KebabCase(f)]).ok
    THEN Ok(Person([f \in PersonFields |-> DeserializeOption(obj[KebabCase(f)]).value]))
    ELSE Err

\* A variant of DeserializeName that tries Person before Literal.
DeserializePersonFirst(obj) ==
    IF DeserializePerson(obj).ok THEN DeserializePerson(obj)
    ELSE DeserializeLiteral(obj)

\* The derived Deserialize of the untagged enum: the variants are tried in
\* the order they are declared in, Literal first.
DeserializeName(obj) ==
    IF DeserializeLiteral(obj).ok THEN DeserializeLiteral(obj)
    ELSE DeserializePerson(obj)

\* A variant of SerializeName that writes the parts under the field names.
SerializeFieldNames(nm) ==
    [k \in JsonKeys |->
        IF nm.variant = "Literal"
        THEN IF k = "literal" THEN JsonString(nm.literal) ELSE JsonAbsent
        ELSE IF k \in PersonFields
        THEN IF IsSome(nm.person[k]) THEN JsonString(Unwrap(nm.person[k])) ELSE JsonNull
        ELSE JsonAbsent]

\* The derived Serialize: a Literal writes its literal, a Person every part
\* under its kebab-case key, null for None.
SerializeName(nm) ==
    [k \in JsonKeys |->
        IF nm.variant = "Literal"
        THEN IF k = "literal" THEN JsonString(nm.literal) ELSE JsonAbsent
        ELSE IF \E f \in PersonFields : KebabCase(f) = k
        THEN LET f == CHOOSE g \in PersonFields : KebabCase(g) = k
             IN  IF IsSome(nm.person[f]) THEN JsonString(Unwrap(nm.person[f])) ELSE JsonNull
        ELSE JsonAbsent]

(***************************************************************************)
(* The specification of the names' JSON: slot.json is a name object, as it *)
(* arrived or as SerializeName wrote it (slot.of is then the Name           *)
(* written); last is the last conversion and its result.                   *)
(***************************************************************************)
MaxJsonCalls == 2

\* The name objects that arrive: each key absent, null or a string.
JsonNames ==
    {[k \in JsonKeys |->
         IF k = "literal" THEN literal ELSE IF k = "family" THEN family
         ELSE IF k = "given" THEN given
         ELSE IF k = "non-dropping-particle" THEN particle
         ELSE IF k = "non_dropping_particle" THEN other
         ELSE IF k = "suffix" THEN suffix ELSE JsonAbsent] :
        literal \in {JsonAbsent, JsonNull, JsonString("Plato")},
        family \in {JsonAbsent, JsonNull, JsonString("Beethoven")},
        given \in {JsonAbsent, JsonString("Ludwig")},
        particle \in {JsonAbsent, JsonString("van")},
        other \in {JsonAbsent, JsonString("von")},
        suffix \in {JsonAbsent, JsonNull}}

\* The Names that are serialised.
NameValues ==
    {Literal(s) : s \in {"Plato", ""}}
        \cup {Person(PersonName(family, given, particle, None, suffix)) :
                family \in {None, Some("Beethoven")}, given \in {None, Some("Ludwig")},
                particle \in {None, Some("van")}, suffix \in {None, Some("Jr.")}}

InitJson ==
    /\ \E obj \in JsonNames : slot = [open |-> FALSE, locales |-> <<>>, json |-> obj, of |-> None]
    /\ db = EmptyDb(BundledFetcher)
    /\ last = [op |-> "none", value |-> Err]
    /\ since = NothingSince
    /\ calls = 0
    /\ par = NotComputing

JsonStep ==
    /\ calls < MaxJsonCalls
    /\ calls' = calls + 1
    /\ UNCHANGED <<db, since, par>>

\* serde_json::from_value::<Name>.
FromJson ==
    /\ JsonStep
    /\ last' = [op |-> "from_json", value |-> DeserializeName(slot.json)]
    /\ UNCHANGED slot

\* serde_json::to_value(&name).
ToJson ==
    /\ JsonStep
    /\ \E nm \in NameValues :
          /\ slot' = [slot EXCEPT !.json = SerializeName(nm), !.of = Some(nm)]
          /\ last' = [op |-> "to_json", value |-> Ok(nm)]

NextJson == FromJson \/ ToJson

SpecJson == InitJson /\ [][NextJson]_vars

(***************************************************************************)
(* Properties of SpecJson.                                                 *)
(***************************************************************************)
\* The part a name object holds under a key.
PartOf(obj, k) == IF obj[k].t = "string" THEN Some(obj[k].s) ELSE None

\* C18: a name object parses as Name::Literal whenever it holds a string
\* under literal, whatever other keys it holds, and as Name::Person of
\* its parts otherwise, the empty object included.
LiteralWins ==
    last.op = "from_json" =>
        IF slot.json["literal"].t = "string"
        THEN last.value = Ok(Literal(slot.json["literal"].s))
        ELSE last.value =
                 Ok(Person(PersonName(PartOf(slot.json, "family"),
                                      PartOf(slot.json, "given"),
                                      PartOf(slot.json, "non-dropping-particle"),
                                      PartOf(slot.json, "dropping-particle"),
                                      PartOf(slot.json, "suffix"))))

\* A name object with a literal and the parts of a person was parsed.
LiteralAmongParts ==
    /\ last.op = "from_json"
    /\ slot.json["literal"] = JsonString("Plato")
    /\ slot.json["family"] = JsonString("Beethoven")
    /\ slot.json["given"] = JsonString("Ludwig")
    /\ last.value = Ok(Literal("Plato"))

FormattedRefs == {Reference("r2", NoLang, "t2"), Reference("r1", "fr-FR", "t1")}

InitPreview ==
    /\ \E refs \in RefLists :
          db = init_clusters(
                   set_references(new(StyleText(TRUE, StyleA), BundledFetcher, TRUE).db, refs),
                   <<FirstCluster>>)
    /\ last = [op |-> "init_clusters", ok |-> TRUE, summary |-> {}, executed |-> {},
               since |-> NothingSince]
    /\ since = [kind |-> "other", id |-> 0, written |-> {}]
    /\ calls = 0
    /\ slot = NoSlot
    /\ par = NotComputing

\* citeproc_rs_processor_format_one: JSON that does not parse panics at
\* the unwrap, before anything is written.
FormatOne ==
    /\ calls < MaxCalls
    /\ ~db.panicked
    /\ \/ \E refr \in FormattedRefs :
             LET With(r) ==
                     /\ db' = r.db
                     /\ last' = Returned("format_one", r.ok, {}, r.db.will_execute)
                     /\ since' = [kind |-> "format_one", id |-> preview_cluster_id(db),
                                  written |-> Written(db, r.db)]
             IN  With(format_one(db, refr))
       \/ /\ db' = [db EXCEPT !.panicked = TRUE]
          /\ last' = Returned("format_one", FALSE, {}, {})
          /\ UNCHANGED since
    /\ calls' = calls + 1
    /\ UNCHANGED <<slot, par>>

ReplaceFirstCluster ==
    \E c \in {v \in ClusterValues : v.id = FirstCluster.id} :
        Set("replace_cluster", 0, replace_cluster(db, c), TRUE)

NextPreview ==
    \/ FormatOne
    \/ ReplaceFirstCluster
    \/ SetReferences
    \/ Compute
    \/ BatchedUpdates
    \/ Drain

SpecPreview == InitPreview /\ [][NextPreview]_vars

(***************************************************************************)
(* Properties of SpecPreview.                                              *)
(***************************************************************************)
\* What the processor holds of its clusters: the list of ids, and the
\* cites and note number of every cluster, with their revisions.
ClusterInputs(d) ==
    [k \in {K0("cluster_ids")} \cup {K("cluster_cites", c, "") : c \in ClusterIds}
            \cup {K("cluster_note_number", c, "") : c \in ClusterIds} |-> d.inputs[k]]

MaxClusterCalls == 3

NoCluster == Cluster(0, <<>>, 0)

ClusterCall(op, cluster, before, id, mappings) ==
    [op |-> op, cluster |-> cluster, before |-> before, id |-> id, mappings |-> mappings]

\* The arguments the calls are made with: before may name an id that is not
\* registered; a list of pairs may name an id twice and may have a trailing
\* element.
Befores == {None} \cup {Some(k) : k \in ClusterIds}
PairLists == {<<1, 5>>, <<1, 5, 1, 6>>, <<2, 7, 1>>, <<1, 4, 2, 4>>, <<2>>}
\* The lists init_clusters is called with on a processor that holds
\* clusters; one names an id twice.
GivenClusterLists ==
    {<<>>, <<FirstCluster, Cluster(1, <<Cite(3, "r2", None)>>, 2)>>,
     <<Cluster(2, <<Cite(3, "r2", None)>>, 1), FirstCluster>>}
HeldClusterLists == {<<>>} \cup ClusterLists
HeldRefs == <<Reference("r1", NoLang, "t1"), Reference("r2", NoLang, "t2")>>

InitHeldClusters ==
    /\ \E cs \in HeldClusterLists :
          /\ db = init_clusters(
                      set_references(new(StyleText(TRUE, StyleA), BundledFetcher, TRUE).db,
                                     HeldRefs),
                      cs)
          /\ last = ClusterCall("init_clusters", NoCluster, None, 0, <<>>)
    /\ since = NothingSince
    /\ calls = 0
    /\ slot = NoSlot
    /\ par = NotComputing

ClusterStep(call, d2) ==
    /\ calls < MaxClusterCalls
    /\ ~db.panicked
    /\ db' = d2
    /\ last' = call
    /\ calls' = calls + 1
    /\ UNCHANGED <<since, slot, par>>

InsertClusterBefore ==
    \E c \in ClusterValues, before \in Befores :
        ClusterStep(ClusterCall("insert_cluster", c, before, c.id, <<>>),
                    insert_cluster(db, c, before))

ReplaceClusterBy ==
    \E c \in ClusterValues :
        ClusterStep(ClusterCall("replace_cluster", c, None, c.id, <<>>),
                    replace_cluster(db, c))

RemoveClusterOf ==
    \E k \in ClusterIds :
        ClusterStep(ClusterCall("remove_cluster", NoCluster, None, k, <<>>),
                    remove_cluster(db, k))

RenumberClustersBy ==
    \E m \in PairLists :
        ClusterStep(ClusterCall("renumber_clusters", NoCluster, None, 0, m),
                    renumber_clusters(db, m))

InitClustersWith ==
    \E cs \in GivenClusterLists :
        ClusterStep(ClusterCall("init_clusters", NoCluster, None, 0, <<>>),
                    init_clusters(db, cs))

ComputeClusters ==
    ClusterStep(ClusterCall("compute", NoCluster, None, 0, <<>>), compute(db))

NextClusters ==
    \/ InsertClusterBefore
    \/ ReplaceClusterBy
    \/ RemoveClusterOf
    \/ RenumberClustersBy
    \/ InitClustersWith
    \/ ComputeClusters

SpecClusters == InitHeldClusters /\ [][NextClusters]_vars

\* The value of an input of d, None while it was never set.
ValueOf(d, key) == InputValues(d)[key]

\* seq with x placed at index pos and what was there moved back.
PlacedAt(seq, pos, x) ==
    SubSeq(seq, 1, pos - 1) \o <<x>> \o SubSeq(seq, pos, Len(seq))

\* C22: insert_cluster(c, Some(b)) with b in cluster_ids places c.id
\* immediately before b, and insert_cluster(c, None) places c.id last; in both
\* cases the previously registered ids keep their relative order, and
\* cluster_cites[c.id] is the cite ids of c in their given order.
InsertClusterOrdering ==
    [][last'.op = "insert_cluster" =>
          /\ (IsSome(last'.before) /\ Contains(IdsOf(db), Unwrap(last'.before))) =>
                \E pos \in 1..Len(IdsOf(db)) :
                    /\ IdsOf(db') = PlacedAt(IdsOf(db), pos, last'.cluster.id)
                    /\ IdsOf(db')[pos + 1] = Unwrap(last'.before)
          /\ last'.before = None => IdsOf(db') = IdsOf(db) \o <<last'.cluster.id>>
          /\ ValueOf(db', K("cluster_cites", last'.id, ""))
                 = Some([i \in 1..Len(last'.cluster.cites) |-> last'.cluster.cites[i].id])]_vars

\* Cluster 2 placed before cluster 1 in a document that held cluster 1.
InsertedBeforeFirst ==
    /\ last.op = "insert_cluster"
    /\ last.before = Some(1)
    /\ last.cluster.id = 2
    /\ IdsOf(db) = <<2, 1>>

\* c.id is in cluster_ids of d and compute() leaves built_cluster(c.id)
\* memoised at the current revision.
RegisteredAndBuilt(d, id) ==
    /\ Contains(IdsOf(d), id)
    /\ IsCurrent(compute(d), K("built_cluster", id, ""))

\* C23: insert_cluster registers the cluster for every value of before: after
\* insert_cluster(c, before), c.id is a member of cluster_ids and compute()
\* builds it, also when before names a cluster id that is not in cluster_ids.
InsertClusterRegisters ==
    [][last'.op = "insert_cluster" => RegisteredAndBuilt(db', last'.id)]_vars

\* An insert_cluster whose before names an unregistered id: the cluster's
\* cluster_cites is written and its id is not in cluster_ids.
InsertedNowhere ==
    /\ last.op = "insert_cluster"
    /\ IsSome(last.before)
    /\ ~Contains(IdsOf(db), last.id)
    /\ ValueOf(db, K("cluster_cites", last.id, "")) = Some(CiteIdsOf(last.cluster))

\* The inputs cluster_cites and cluster_note_number of the clusters other
\* than id are in d2 what they are in d.
OtherClustersKept(d, d2, id) ==
    \A k \in ClusterIds \ {id} :
        /\ d2.inputs[K("cluster_cites", k, "")] = d.inputs[K("cluster_cites", k, "")]
        /\ d2.inputs[K("cluster_note_number", k, "")] = d.inputs[K("cluster_note_number", k, "")]

\* C24: replace_cluster(c) leaves cluster_ids unchanged if c.id is present
\* and otherwise appends c.id; it sets cluster_cites[c.id] and
\* cluster_note_number[c.id] from c, and the cluster_cites and
\* cluster_note_number of every other cluster are unchanged.
ReplaceClusterFrame ==
    [][last'.op = "replace_cluster" =>
          /\ IdsOf(db') = IF Contains(IdsOf(db), last'.id) THEN IdsOf(db)
                          ELSE IdsOf(db) \o <<last'.id>>
          /\ ValueOf(db', K("cluster_cites", last'.id, ""))
                 = Some([i \in 1..Len(last'.cluster.cites) |-> last'.cluster.cites[i].id])
          /\ ValueOf(db', K("cluster_note_number", last'.id, ""))
                 = Some(last'.cluster.note_number)
          /\ OtherClustersKept(db, db', last'.id)]_vars

\* Cluster 1 replaced in a document of two clusters, and cluster 2 appended
\* by a replace_cluster.
ReplacedInPlace ==
    /\ last.op = "replace_cluster"
    /\ last.id = 1
    /\ IdsOf(db) = <<1, 2>>
    /\ Unwrap(db.inputs[K0("cluster_ids")]).changed_at
           < Unwrap(db.inputs[K("cluster_cites", 1, "")]).changed_at

\* C25: after remove_cluster(id), id is not in cluster_ids, cluster_cites[id]
\* is empty and the remaining ids keep their order; the cluster_cites and
\* cluster_note_number of every other cluster and all reference inputs are
\* unchanged; removing an id that is not registered leaves cluster_ids with
\* the same contents.
RemoveClusterFrame ==
    [][last'.op = "remove_cluster" =>
          /\ ~Contains(IdsOf(db'), last'.id)
          /\ ValueOf(db', K("cluster_cites", last'.id, "")) = Some(<<>>)
          /\ IdsOf(db') = SelectSeq(IdsOf(db), LAMBDA k : k # last'.id)
          /\ OtherClustersKept(db, db', last'.id)
          /\ \A r \in RefIds :
                db'.inputs[K("reference_input", 0, r)] = db.inputs[K("reference_input", 0, r)]
          /\ db'.inputs[K0("all_keys")] = db.inputs[K0("all_keys")]
          /\ ~Contains(IdsOf(db), last'.id) => IdsOf(db') = IdsOf(db)]_vars

\* Cluster 1 removed from a document that still holds cluster 2 and its
\* cites.
RemovedFirst ==
    /\ last.op = "remove_cluster"
    /\ last.id = 1
    /\ IdsOf(db) = <<2>>
    /\ ValueOf(db, K("cluster_cites", 2, "")) = Some(<<3>>)
    /\ ValueOf(db, K("cluster_cites", 1, "")) = Some(<<>>)

\* The indices of the pairs of mappings that name id.
PairsOf(mappings, id) == {i \in 1..(Len(mappings) \div 2) : mappings[2 * i - 1] = id}

\* C26: renumber_clusters reads mappings as consecutive (cluster id, note
\* number) pairs and sets cluster_note_number for each pair in order, the
\* last pair of an id standing; a trailing unpaired element is ignored, and
\* cluster_ids, cluster_cites and every cite are unchanged.
RenumberClustersFrame ==
    [][last'.op = "renumber_clusters" =>
          /\ \A k \in ClusterIds :
                ValueOf(db', K("cluster_note_number", k, ""))
                    = IF PairsOf(last'.mappings, k) = {}
                      THEN ValueOf(db, K("cluster_note_number", k, ""))
                      ELSE Some(last'.mappings[
                               2 * (CHOOSE i \in PairsOf(last'.mappings, k) :
                                       \A j \in PairsOf(last'.mappings, k) : j <= i)])
          /\ db'.inputs[K0("cluster_ids")] = db.inputs[K0("cluster_ids")]
          /\ \A k \in ClusterIds :
                db'.inputs[K("cluster_cites", k, "")] = db.inputs[K("cluster_cites", k, "")]
          /\ \A c \in CiteIds : db'.inputs[K("cite", c, "")] = db.inputs[K("cite", c, "")]]_vars

\* A renumbering that names cluster 1 twice, and one with a trailing element.
RenumberedTwice ==
    /\ last.op = "renumber_clusters"
    /\ last.mappings = <<1, 5, 1, 6>>
    /\ IdsOf(db) = <<1, 2>>
    /\ ValueOf(db, K("cluster_note_number", 1, "")) = Some(6)
    /\ ValueOf(db, K("cluster_note_number", 2, "")) = Some(2)

(***************************************************************************)
(* A processor at rest (SpecQuiet): a processor built with or without      *)
(* save_updates holds references and clusters; clusters are replaced, the  *)
(* style text is set, and the processor is computed, drained and asked for *)
(* its updates and clusters.                                               *)
(***************************************************************************)
InitQuiet ==
    /\ \E save_updates \in BOOLEAN, cs \in ClusterLists :
          db = init_clusters(
                   set_references(new(StyleText(TRUE, StyleA), BundledFetcher, save_updates).db,
                                  HeldRefs),
                   cs)
    /\ last = [op |-> "init_clusters", ok |-> TRUE, summary |-> {}, executed |-> {},
               since |-> NothingSince]
    /\ since = [kind |-> "other", id |-> 0, written |-> {}]
    /\ calls = 0
    /\ slot = NoSlot
    /\ par = NotComputing

NextQuiet ==
    \/ ReplaceCluster
    \/ SetStyleText
    \/ Compute
    \/ GetCluster
    \/ BatchedUpdates
    \/ Drain

SpecQuiet == InitQuiet /\ [][NextQuiet]_vars

\* Every cluster of cluster_ids is memoised at the current revision.
Quiescent(d) == \A i \in 1..Len(IdsOf(d)) : IsCurrent(d, K("built_cluster", IdsOf(d)[i], ""))

\* How often each built_cluster query was executed since the last write.
ClusterExecutions(d) == [k \in ClusterIds |-> d.executed[K("built_cluster", k, "")]]

\* The last call was compute(), drain() or batched_updates().
ComputeReturned == last.op \in {"compute", "drain", "batched_updates"} /\ ~db.panicked

\* This step is a compute(), or a get_cluster(id) of a registered id.
ComputesOrGets ==
    \/ last'.op = "compute"
    \/ /\ last'.op = "get_cluster"
       /\ \E i \in 1..Len(IdsOf(db)) : db' = get_cluster(db, IdsOf(db)[i]).db

\* C27 as stated: once compute(), drain() or batched_updates() has returned,
\* every cluster in cluster_ids is memoised at the current revision, so with
\* no intervening input mutation a further compute() or get_cluster(id)
\* executes no built_cluster query and the next batched_updates() returns an
\* empty summary.
QuiescenceAsStated ==
    /\ [](ComputeReturned => Quiescent(db))
    /\ [][(ComputeReturned /\ ComputesOrGets)
              => ClusterExecutions(db') = ClusterExecutions(db)]_vars
    /\ [][(ComputeReturned /\ last'.op = "batched_updates") => last'.summary = {}]_vars

\* C27, amended: once compute() or drain() has returned, or batched_updates()
\* of a processor with save_updates set, every cluster in cluster_ids is
\* memoised at the current revision; while that is so, a further compute(),
\* drain(), batched_updates() or get_cluster(id) of a registered id executes
\* no built_cluster query and leaves it so, and the next batched_updates()
\* returns the ids still in the queue: none once drain() or batched_updates()
\* has cleared it, and after compute() alone the clusters compute() executed.
Quiescence ==
    /\ []((Computed /\ ~db.panicked) => Quiescent(db))
    /\ [][(Quiescent(db) /\ (ComputesOrGets \/ last'.op \in {"drain", "batched_updates"}))
              => ClusterExecutions(db') = ClusterExecutions(db) /\ Quiescent(db')]_vars
    /\ [][(Quiescent(db) /\ last'.op = "batched_updates")
              => /\ last'.summary = {db.queue[i] : i \in 1..Len(db.queue)}
                 /\ (last.op \in {"drain", "batched_updates"} => last'.summary = {})]_vars

\* A batched_updates() that follows a drain() and a compute() of two clusters
\* and reports nothing.
AtRest ==
    /\ last.op = "batched_updates"
    /\ last.summary = {}
    /\ last.since = NothingSince
    /\ db.save_updates
    /\ calls >= 3
    /\ IdsOf(db) = <<1, 2>>
    /\ Quiescent(db)

\* C29: set_style_text with a style that fails to parse returns the
\* StyleError and leaves the processor unchanged: the style input keeps its
\* value and revision, no input is written, and the cluster outputs and the
\* update queue are as before the call.
StyleErrorLeavesProcessor ==
    [][(last'.op = "set_style_text" /\ ~last'.ok)
          => /\ db'.inputs = db.inputs
             /\ db'.revision = db.revision
             /\ db'.memos = db.memos
             /\ db'.queue = db.queue]_vars

\* A style text that failed to parse, given to a processor that holds built
\* clusters and queued updates.
StyleErrorAfterCompute ==
    /\ last.op = "set_style_text"
    /\ ~last.ok
    /\ Len(db.queue) = 2
    /\ Quiescent(db)
    /\ Unwrap(db.inputs[K0("style")]).value = StyleA

(***************************************************************************)
(* batched_updates() of a processor built with rayon (SpecParUpdates): the *)
(* call runs compute() as the steps of its threads and then takes the      *)
(* queue.  last keeps, from the call on, the summary the processor built   *)
(* without rayon returns from the same call (sequential).                  *)
(***************************************************************************)
BatchedUpdatesCall(op, summary, executed, sequential) ==
    [op |-> op, ok |-> TRUE, summary |-> summary, executed |-> executed,
     since |-> since, sequential |-> sequential]

InitParUpdates ==
    /\ \E cs \in ClusterLists :
          db = init_clusters(
                   set_references(new(StyleText(TRUE, StyleA), BundledFetcher, TRUE).db,
                                  HeldRefs),
                   cs)
    /\ last = [op |-> "init_clusters", ok |-> TRUE, summary |-> {}, executed |-> {},
               since |-> NothingSince]
    /\ since = [kind |-> "other", id |-> 0, written |-> {}]
    /\ calls = 0
    /\ slot = NoSlot
    /\ par = NotComputing

\* batched_updates() is called with save_updates set: compute() reads
\* cluster_ids and all_cite_ids and enters the loop over the cite ids.
CallBatchedUpdates ==
    /\ calls < MaxCalls
    /\ ~db.panicked
    /\ par.phase = "idle"
    /\ db.save_updates
    /\ LET With(r) ==
               /\ db' = r.db
               /\ par' = Loop([par EXCEPT !.mark = Len(db.queue)], r.db, "ir",
                              ClusterKeys("ir_gen2_add_given_name", r.value))
       IN  With(Fetch(db, K0("all_cite_ids")))
    /\ last' = BatchedUpdatesCall("call", {}, {}, batched_updates(db).summary)
    /\ calls' = calls + 1
    /\ UNCHANGED <<since, slot>>

\* The loop over the cluster ids returns, and compute() does;
\* batched_updates() locks the queue, summarizes and clears it.
ReturnBatchedUpdates ==
    /\ par.phase = "clusters"
    /\ LoopDone(par)
    /\ par' = [DropSnapshots(par) EXCEPT !.phase = "idle"]
    /\ LET With(r) ==
               /\ db' = r.db
               /\ last' = BatchedUpdatesCall("batched_updates", r.summary, r.executed,
                                             last.sequential)
       IN  With(TakeSummary(db))
    /\ since' = NothingSince
    /\ UNCHANGED <<calls, slot>>

NextParUpdates ==
    \/ ReplaceCluster
    \/ RemoveCluster
    \/ CallBatchedUpdates
    \/ \E w \in Workers : Take(w)
    \/ \E w \in Workers : Step(w)
    \/ JoinIrs
    \/ CallYearSuffixes
    \/ ReturnBatchedUpdates

SpecParUpdates == InitParUpdates /\ [][NextParUpdates]_vars

\* C28: the snapshots of the workers share the processor's queue, so every
\* built_cluster execution by any worker during compute() is in the queue
\* when compute() returns, and batched_updates() on parallel snapshots
\* reports the same set of cluster ids as sequential execution.
SharedQueue ==
    /\ {db.queue[i] : i \in 1..Len(db.queue)} = ExecutedClusters(db.will_execute)
    /\ last.op = "batched_updates" =>
           /\ last.summary = last.sequential
           /\ last.summary = ExecutedClusters(last.executed)

\* A batched_updates() whose two workers each executed one cluster, after an
\* earlier batched_updates() and a write.
BothWorkersReported ==
    /\ last.op = "batched_updates"
    /\ last.summary = {1, 2}
    /\ calls >= 3
    /\ db.executed[K("built_cluster", 1, "")] = 1
    /\ db.executed[K("built_cluster", 2, "")] = 1

(***************************************************************************)
(* Stored locales and the fetcher (SpecLocale).                            *)
(***************************************************************************)
\* The memo of locale_xml(lang), if any.
StoredXml(d, lang) == d.memos[K("locale_xml", 0, lang)]

\* C30: stored locales take precedence over the fetcher: when lang is in
\* locale_input_langs, locale_xml(lang) returns the stored
\* locale_input_xml(lang) and the fetcher is not consulted, also when
\* locale_xml(lang) was memoised from the fetcher, a memoised None included,
\* before store_locales added lang; merged_locale reflects the stored XML
\* from the next query on.
StoredLocaleWins ==
    /\ [](last.op = "merged_locale" =>
             /\ last.lang \in LangsOf(db) => IsCurrent(db, K("locale_xml", 0, last.lang))
             /\ \A l \in LangsOf(db) :
                   IsCurrent(db, K("locale_xml", 0, l))
                       => Unwrap(StoredXml(db, l)).value
                              = Some(Unwrap(db.inputs[K("locale_input_xml", 0, l)]).value)
             /\ last.value = Over(Available(db, last.lang)))
    /\ [][last'.op = "merged_locale" =>
             \A l \in LangsOf(db) : db'.fetches[l] = db.fetches[l]]_vars

\* A merged locale of fr-FR that reads the stored fr-FR, after the fetcher
\* was asked for fr-FR and had none, and fr-FR was stored then.
StoredAfterFetched ==
    /\ last.op = "merged_locale"
    /\ last.lang = "fr-FR"
    /\ "fr-FR" \in LangsOf(db)
    /\ db.fetcher["fr-FR"].tag = "none"
    /\ db.fetches["fr-FR"] = 1
    /\ Unwrap(StoredXml(db, "fr-FR")).value = Some(LocaleXml(TRUE, OptionsOf("fr-FR")))
    /\ last.value["options"] = Some("fr-FR")

(***************************************************************************)
(* Disambiguation (SpecDisamb).  The stages run in order over all cites of *)
(* the document, a stage being repeated for as long as a round of it       *)
(* changes a cite.  slot holds                                             *)
(*   citation  the style's Citation: the three disambiguate flags and the  *)
(*             givenname rule                                              *)
(*   refs      cite -> the names of the reference it cites, all of one     *)
(*             year                                                        *)
(*   shown     cite -> how many names are rendered, the others "et al."    *)
(*   given     cite -> how far given names are expanded: 0 family name     *)
(*             only, 1 with initials, 2 in full                            *)
(*   suffix    cite -> its year suffix, 0 for none                         *)
(*   stage     the stage that runs next, or "done"                         *)
(*   rounds    stage -> the rounds of it that changed a cite               *)
(***************************************************************************)
MaxDisambCites == 3

GivenNameDisambiguationRule ==
    {"all-names", "all-names-with-initials", "primary-name",
     "primary-name-with-initials", "by-cite"}

Citation(add_names, add_givenname, rule, add_year_suffix) ==
    [disambiguate_add_names |-> add_names,
     disambiguate_add_givenname |-> add_givenname,
     givenname_disambiguation_rule |-> rule,
     disambiguate_add_year_suffix |-> add_year_suffix]

Citations ==
    {Citation(n, g, r, y) : n \in BOOLEAN, g \in BOOLEAN,
                            r \in GivenNameDisambiguationRule, y \in BOOLEAN}

\* A name: family name, initial, the rest of the given name.
DisambName(family, initial, rest) == [family |-> family, initial |-> initial, rest |-> rest]
SmithJohn == DisambName("Smith", "J", "ohn")
SmithJane == DisambName("Smith", "J", "ane")
TanMary == DisambName("Tan", "M", "ary")

NameLists ==
    {<<SmithJohn>>, <<SmithJane>>, <<SmithJohn, TanMary>>, <<SmithJohn, SmithJane>>,
     <<SmithJohn, TanMary, SmithJane>>}

Documents ==
    UNION {[1..n -> NameLists] : n \in 2..MaxDisambCites}

Stages == <<"add-names", "add-givenname", "add-year-suffix">>

\* max-name-count: the most names a cited reference has.
MaxNameCount(s) ==
    CHOOSE n \in {Len(s.refs[i]) : i \in DOMAIN s.refs} :
        \A i \in DOMAIN s.refs : Len(s.refs[i]) <= n

\* How far the rule lets a given name be expanded, and of which names.
MaxGiven(rule) ==
    IF rule \in {"all-names-with-initials", "primary-name-with-initials"} THEN 1 ELSE 2

Expands(rule, k) == rule \notin {"primary-name", "primary-name-with-initials"} \/ k = 1

\* The k-th name of cite i as rendered.
RenderedName(s, i, k) ==
    LET level == IF Expands(s.citation.givenname_disambiguation_rule, k)
                 THEN s.given[i] ELSE 0
    IN  [family |-> s.refs[i][k].family,
         initial |-> IF level >= 1 THEN s.refs[i][k].initial ELSE "",
         rest |-> IF level >= 2 THEN s.refs[i][k].rest ELSE ""]

\* The rendered citation of cite i, by which cites are compared.
RenderedCite(s, i) ==
    [names |-> [k \in 1..s.shown[i] |-> RenderedName(s, i, k)],
     et_al |-> s.shown[i] < Len(s.refs[i]),
     suffix |-> s.suffix[i]]

Ambiguous(s, i) ==
    \E j \in DOMAIN s.refs : j # i /\ RenderedCite(s, j) = RenderedCite(s, i)

\* A variant of AddNamesRound that starts an exhausted cite over with one
\* name.
AddNamesRoundOver(s) ==
    [s EXCEPT !.shown = [i \in DOMAIN s.refs |->
                            IF ~Ambiguous(s, i) THEN s.shown[i]
                            ELSE IF s.shown[i] < Len(s.refs[i]) THEN s.shown[i] + 1
                            ELSE 1]]

\* A round of add-names: every ambiguous cite that has a name left shows one
\* name more.
AddNamesRound(s) ==
    [s EXCEPT !.shown = [i \in DOMAIN s.refs |->
                            IF Ambiguous(s, i) /\ s.shown[i] < Len(s.refs[i])
                            THEN s.shown[i] + 1 ELSE s.shown[i]]]

\* A round of add-givenname: every ambiguous cite whose given names the rule
\* lets expand further has them expanded by one step.
AddGivennameRound(s) ==
    [s EXCEPT !.given = [i \in DOMAIN s.refs |->
                            IF Ambiguous(s, i)
                               /\ s.given[i] < MaxGiven(s.citation.givenname_disambiguation_rule)
                            THEN s.given[i] + 1 ELSE s.given[i]]]

\* The round of add-year-suffix: the ambiguous cites that render alike get
\* a, b, c, ... in input order.
AddYearSuffixRound(s) ==
    [s EXCEPT !.suffix = [i \in DOMAIN s.refs |->
                             IF Ambiguous(s, i)
                             THEN Cardinality({j \in 1..i :
                                                  RenderedCite(s, j) = RenderedCite(s, i)})
                             ELSE s.suffix[i]]]

Enabled(s, stage) ==
    CASE stage = "add-names" -> s.citation.disambiguate_add_names
      [] stage = "add-givenname" -> s.citation.disambiguate_add_givenname
      [] stage = "add-year-suffix" -> s.citation.disambiguate_add_year_suffix

Round(s, stage) ==
    CASE stage = "add-names" -> AddNamesRound(s)
      [] stage = "add-givenname" -> AddGivennameRound(s)
      [] stage = "add-year-suffix" -> AddYearSuffixRound(s)

NextStage(stage) ==
    CASE stage = "add-names" -> "add-givenname"
      [] stage = "add-givenname" -> "add-year-suffix"
      [] stage = "add-year-suffix" -> "done"

InitDisamb ==
    /\ \E citation \in Citations, refs \in Documents :
          slot = [open |-> FALSE, locales |-> <<>>,
                  citation |-> citation,
                  refs |-> refs,
                  shown |-> [i \in DOMAIN refs |-> 1],
                  given |-> [i \in DOMAIN refs |-> 0],
                  suffix |-> [i \in DOMAIN refs |-> 0],
                  stage |-> "add-names",
                  rounds |-> [st \in {"add-names", "add-givenname", "add-year-suffix"} |-> 0]]
    /\ db = EmptyDb(BundledFetcher)
    /\ last = [op |-> "none", changed |-> FALSE]
    /\ since = NothingSince
    /\ calls = 0
    /\ par = NotComputing

\* The stage runs a round; a round that changes no cite ends the stage, and
\* a stage the style does not ask for is passed over.
RunStage(stage) ==
    /\ LET With(s) ==
               IF Enabled(slot, stage) /\ s # slot
               THEN /\ slot' = [s EXCEPT !.rounds[stage] = @ + 1]
                    /\ last' = [op |-> stage, changed |-> TRUE]
               ELSE /\ slot' = [slot EXCEPT !.stage = NextStage(stage)]
                    /\ last' = [op |-> stage, changed |-> FALSE]
       IN  With(Round(slot, stage))
    /\ UNCHANGED <<db, since, calls, par>>

AddNames == slot.stage = "add-names" /\ RunStage("add-names")
AddGivenname == slot.stage = "add-givenname" /\ RunStage("add-givenname")
AddYearSuffix == slot.stage = "add-year-suffix" /\ RunStage("add-year-suffix")

NextDisamb == AddNames \/ AddGivenname \/ AddYearSuffix

SpecDisamb == InitDisamb /\ [][NextDisamb]_vars /\ WF_vars(NextDisamb)

\* No round of a stage the style asks for changes a cite.
FixedPoint(s) ==
    \A n \in 1..Len(Stages) : Enabled(s, Stages[n]) => Round(s, Stages[n]) = s

\* C21: disambiguation terminates: a round only adds to what a cite shows,
\* add-names takes at most max-name-count rounds and add-year-suffix one, and
\* the stages end at a fixed point over all cites, cites that are still
\* ambiguous then included.
DisambiguationTerminates ==
    /\ <>(slot.stage = "done")
    /\ [](slot.stage = "done" => FixedPoint(slot))
    /\ [](/\ slot.rounds["add-names"] <= MaxNameCount(slot)
          /\ slot.rounds["add-year-suffix"] <= 1)
    /\ [][\A i \in DOMAIN slot.refs :
             /\ slot'.shown[i] >= slot.shown[i]
             /\ slot'.given[i] >= slot.given[i]
             /\ slot'.suffix[i] >= slot.suffix[i]]_vars

\* The stages ended with two cites of one rendering after two rounds of
\* add-names: the names and given names are exhausted and the style asks for
\* no year suffix.
Exhausted ==
    /\ slot.stage = "done"
    /\ slot.rounds["add-names"] = 2
    /\ slot.rounds["add-givenname"] >= 1
    /\ \E i \in DOMAIN slot.refs : Ambiguous(slot, i)

(***************************************************************************)
(* Invariants of the cluster inputs (SpecClusters).                        *)
(***************************************************************************)
\* Every id of cluster_ids has cluster_cites and cluster_note_number set,
\* and every cite id of its cluster_cites has its cite set.
ClusterInputsSet(d) ==
    \A i \in 1..Len(IdsOf(d)) :
        /\ IsSome(d.inputs[K("cluster_cites", IdsOf(d)[i], "")])
        /\ IsSome(d.inputs[K("cluster_note_number", IdsOf(d)[i], "")])
        /\ \A n \in 1..Len(Unwrap(d.inputs[K("cluster_cites", IdsOf(d)[i], "")]).value) :
              IsSome(d.inputs[K("cite",
                                Unwrap(d.inputs[K("cluster_cites", IdsOf(d)[i], "")]).value[n],
                                "")])

\* C31: after any sequence of init_clusters, insert_cluster, replace_cluster,
\* remove_cluster and renumber_clusters, every id in cluster_ids has
\* cluster_cites[id] and cluster_note_number[id] set and every cite id listed
\* in cluster_cites[id] has its cite set, so compute() never reads an input
\* that was never written.
ReferentialIntegrity ==
    /\ ClusterInputsSet(db)
    /\ ~db.panicked
    /\ ~compute(db).panicked

\* A compute() that follows the removal of cluster 2 from a document of two
\* clusters: cluster 2 keeps its inputs and is not in cluster_ids.
ComputedAfterRemoval ==
    /\ last.op = "compute"
    /\ IdsOf(db) = <<1>>
    /\ ValueOf(db, K("cluster_cites", 2, "")) = Some(<<>>)
    /\ IsSome(db.inputs[K("cite", 3, "")])
    /\ Quiescent(db)

\* C32: cluster_ids never contains the same cluster id twice, after any
\* sequence of init_clusters, insert_cluster, replace_cluster and
\* remove_cluster, insert_cluster of a registered id and init_clusters with a
\* repeated id included.
ClusterIdsDistinct == NoDuplicates(IdsOf(db))

\* An insert_cluster of a registered id that left the id in cluster_ids
\* twice.
InsertedTwice ==
    /\ last.op = "insert_cluster"
    /\ Cardinality({i \in 1..Len(IdsOf(db)) : IdsOf(db)[i] = last.id}) = 2

\* An init_clusters with a repeated id that left the id in cluster_ids twice.
InitialisedTwice ==
    /\ last.op = "init_clusters"
    /\ IdsOf(db) = <<1, 1>>

(***************************************************************************)
(* What batched_updates() reports (Spec).                                  *)
(***************************************************************************)
\* The ids of cluster_ids as last written.
RegisteredIds(d) == {IdsOf(d)[i] : i \in 1..Len(IdsOf(d))}

\* The cluster ids recorded in the queue of d.
Recorded(d) == {d.queue[i] : i \in 1..Len(d.queue)}

\* C33, as stated: the summary batched_updates() returns holds only ids that
\* are in cluster_ids when it is called (batched_updates() leaves cluster_ids
\* as it found it).
ReportsOnlyRegistered ==
    last.op = "batched_updates" => last.summary \subseteq RegisteredIds(db)

\* C33, amended: with save_updates, batched_updates() reports every cluster
\* recorded in the queue since it was last cleared, registered or not, so a
\* cluster built and then removed is still reported; the ids it adds to those
\* are of registered clusters, and it leaves the queue empty.
ReportsRecorded ==
    [][(last'.op = "batched_updates" /\ calls' = calls + 1 /\ db.save_updates)
          => /\ Recorded(db) \subseteq last'.summary
             /\ (last'.summary \ Recorded(db)) \subseteq RegisteredIds(db)
             /\ db'.queue = <<>>]_vars

\* batched_updates() has reported a cluster that remove_cluster took out of
\* cluster_ids after it was built.
ReportedRemoved ==
    /\ last.op = "batched_updates"
    /\ \E k \in last.summary :
          /\ k \notin RegisteredIds(db)
          /\ IsSome(db.inputs[K("cluster_cites", k, "")])
          /\ Unwrap(db.inputs[K("cluster_cites", k, "")]).value = <<>>

====
